---------------------------- MODULE Spec2Model ----------------------------
(***************************************************************************)
(* The memory-mapped statistics file engine of rspamd                     *)
(* (src/src/libstat/backends/mmaped_file.c): the on-disk format, the pool  *)
(* of open statfiles, the block table (get / put / eviction) and reindex.  *)
(*                                                                         *)
(* Memory is modelled at the granularity of the 32-bit word.  A guint32    *)
(* is a word; a double is two words <<lo, hi>> (little-endian host) with   *)
(* the IEEE-754 layout: sign bit, exponent, mantissa.  Words are WordBits  *)
(* wide, not 32, so that TLC can hold them; the layout is kept.            *)
(***************************************************************************)
EXTENDS Integers, Sequences, FiniteSets, TLC

VARIABLES
    disk,       \* the directory: file name -> file contents
    files,      \* pool->files, the array of handles (entries beyond opened are stale)
    opened,     \* pool->opened
    mlock_ok,   \* pool->mlock_ok
    alive,      \* FALSE once statfile_pool_delete has destroyed the pool
    crashed,    \* the process died on a memory fault
    last,       \* the most recent call: operation, arguments, return value, system calls
    shadow,     \* history: what the puts on the table under test asked for
    timer,      \* pool->invalidate_event, pool->invalidate_tv and the event loop's view
    procs,      \* the puts in progress of the processes that share the mapping,
                \* or the threads of one process and the pool mutex they take
    bloom,      \* the bloom_filter_t under test: a, asize, nfuncs, funcs
    exim        \* the exim client's body-sending loop: spool file, socket, locals

\* a specification that does not exercise the Bloom filter or the exim client
\* keeps them absent
NoBloom == <<>>
NoClient == <<>>

vars == <<disk, files, opened, mlock_ok, alive, crashed, last, shadow, timer, procs, bloom, exim>>

-----------------------------------------------------------------------------
(* Program constants *)

CHAIN_LENGTH == 128
STATFILES_MAX == 255
STATFILE_SECTION_COMMON == 1
SizeofHeader == 288      \* sizeof (struct stat_file_header): 3 + 2 + 3 + 5 * 8 + 239
                         \* = 287 bytes of members, padded to the alignment of guint64
SizeofSection == 16      \* sizeof (struct stat_file_section)
SizeofBlock == 16        \* sizeof (struct stat_file_block)
SizeofStatFile == 320    \* sizeof (struct stat_file): header, section, one block
SizeofBlockPtr == 8      \* sizeof (struct stat_file_block *) on an LP64 build
SizeofWord == 4          \* sizeof (guint32)
RSPAMD_STATFILE_VERSION == "12"
BACKUP_SUFFIX == ".old"
NULL == 0

(* Bounds of the model *)
WordBits == 8            \* width of a modelled guint32
ExpBits == 5             \* width of the exponent of a modelled double
MaxFaults == 1           \* system calls that fail within one call

-----------------------------------------------------------------------------
(* Words and doubles *)

WordMod == 2 ^ WordBits
Word == 0 .. (WordMod - 1)
SignBit == WordMod \div 2
InfHi == SignBit - 2 ^ (WordBits - 1 - ExpBits)   \* high word of +infinity

Max(a, b) == IF a >= b THEN a ELSE b
Min(a, b) == IF a <= b THEN a ELSE b
Labs(a) == IF a < 0 THEN -a ELSE a

\* A double is <<lo, hi>>.  Its IEEE-754 reading:
DIsNaN(d) ==
    LET hi == d[2] % SignBit
    IN  hi >= InfHi /\ (hi > InfHi \/ d[1] # 0)

DOrd(d) ==
    LET m == (d[2] % SignBit) * WordMod + d[1]
    IN  IF d[2] >= SignBit THEN -m ELSE m

\* a < b on doubles: false when either is a NaN; -0.0 and 0.0 compare equal
DLess(a, b) == ~DIsNaN(a) /\ ~DIsNaN(b) /\ DOrd(a) < DOrd(b)

\* d != 0 on doubles
DNonZero(d) == DIsNaN(d) \/ DOrd(d) # 0

G_MAXDOUBLE == <<WordMod - 1, InfHi - 1>>
DInfinity == <<0, InfHi>>
DNaN == <<1, InfHi>>
DZero == <<0, 0>>

-----------------------------------------------------------------------------
(* Files on disk *)

Zeros(n) == [k \in 1 .. n |-> 0]

\* number of whole words of the data area (everything after header and first section)
DataWords(len) ==
    IF len >= SizeofHeader + SizeofSection
    THEN (len - SizeofHeader - SizeofSection) \div SizeofWord
    ELSE 0

\* a file of len zero bytes (what ftruncate / fallocate leave)
ZeroFile(len) ==
    [len |-> len, magic |-> "000", version |-> "00", create_time |-> 0,
     revision |-> 0, rev_time |-> 0, used_blocks |-> 0, total_blocks |-> 0,
     section |-> [code |-> 0, length |-> 0], data |-> Zeros(DataWords(len))]

\* the word of the data area at byte offset off of the file
WordIdx(off) == (off - SizeofHeader - SizeofSection) \div SizeofWord + 1

\* the struct stat_file_block read at byte offset off
BlockAt(f, off) ==
    LET k == WordIdx(off)
    IN  [hash1 |-> f.data[k], hash2 |-> f.data[k + 1],
         value |-> <<f.data[k + 2], f.data[k + 3]>>]

\* whether the 16 bytes at off lie inside the file
BlockInFile(f, off) ==
    /\ off >= SizeofHeader + SizeofSection
    /\ off + SizeofBlock <= f.len

SetHash1(f, off, h1) == [f EXCEPT !.data[WordIdx(off)] = h1]
SetHash2(f, off, h2) == [f EXCEPT !.data[WordIdx(off) + 1] = h2]
SetValue(f, off, v) ==
    [f EXCEPT !.data[WordIdx(off) + 2] = v[1], !.data[WordIdx(off) + 3] = v[2]]

-----------------------------------------------------------------------------
(* Handles and the pool.  A world is the part of the state the operations   *)
(* read and write: w.disk, w.files, w.opened, w.mlock_ok, w.crashed and     *)
(* w.sys, the system calls of interest issued during the current call.      *)

\* bzero (new_file, sizeof (rspamd_mmaped_file_t))
ZeroHandle ==
    [filename |-> <<>>, fd |-> 0, map |-> NULL, seek_pos |-> 0,
     cur_section |-> [code |-> 0, length |-> 0],
     open_time |-> 0, access_time |-> 0, len |-> 0]

MAPPED == 1     \* a non-NULL result of mmap
MAP_FAILED == -1
FD == 3         \* a descriptor returned by open

Sys(w, call) == [w EXCEPT !.sys = Append(@, call)]

\* files[i] = h, growing the array image when slot i was never used
SetSlot(fs, i, h) ==
    IF i <= Len(fs) THEN [fs EXCEPT ![i] = h] ELSE Append(fs, h)

\* the mapped file of handle i (MAP_SHARED: the mapping is the file)
MapOf(w, i) == w.disk[w.files[i].filename]

-----------------------------------------------------------------------------
(* statfile_pool_is_open *)

\* the comparator handed to lfind: handles are compared by file name
cmpstatfile(a, b) == IF a = b THEN 0 ELSE 1

\* a lookup that finds nothing (a variant the idempotence of open must detect)
IsOpenNever(w, filename) == NULL

\* lfind over the first pool->opened entries: the index of the first handle
\* with that file name, or NULL
statfile_pool_is_open(w, filename) ==
    LET hits == {i \in 1 .. w.opened : cmpstatfile(w.files[i].filename, filename) = 0}
    IN  IF hits = {} THEN NULL ELSE CHOOSE i \in hits : \A j \in hits : i <= j

-----------------------------------------------------------------------------
(* rspamd_mmaped_file_check: validates the mapped file of a handle and sets *)
(* its cursor.  Returns [ret, h, f]: the result, the handle, the file.      *)

\* the legacy-format migrator: converts a version {1,0} file in place
convert_statfile_10(f, ok) ==
    IF ok THEN [ok |-> TRUE, f |-> [f EXCEPT !.version = RSPAMD_STATFILE_VERSION]]
    ELSE [ok |-> FALSE, f |-> f]

\* a validation that does not look at the magic (a variant the rejection of
\* foreign files must detect)
CheckNoMagic(h, f, F) ==
    IF h.map = NULL THEN [ret |-> -1, h |-> h, f |-> f]
    ELSE IF h.len < SizeofStatFile THEN [ret |-> -1, h |-> h, f |-> f]
    ELSE
      LET conv == IF f.version = "10"
                  THEN convert_statfile_10(f, "convert" \notin F)
                  ELSE [ok |-> f.version = RSPAMD_STATFILE_VERSION, f |-> f]
          h1 == [h EXCEPT !.cur_section = conv.f.section]
      IN  IF ~conv.ok THEN [ret |-> -1, h |-> h, f |-> f]
          ELSE IF h1.cur_section.length * SizeofBlock > h1.len
          THEN [ret |-> -1, h |-> h1, f |-> conv.f]
          ELSE [ret |-> 0,
                h |-> [h1 EXCEPT !.seek_pos = SizeofStatFile - SizeofBlock],
                f |-> conv.f]

\* the validation of statfile_pool_open
rspamd_mmaped_file_check(h, f, F) ==
    IF h.map = NULL THEN [ret |-> -1, h |-> h, f |-> f]
    ELSE IF h.len < SizeofStatFile THEN [ret |-> -1, h |-> h, f |-> f]
    ELSE IF f.magic # "rsd" THEN [ret |-> -1, h |-> h, f |-> f]
    ELSE
      LET conv == IF f.version = "10"
                  THEN convert_statfile_10(f, "convert" \notin F)
                  ELSE [ok |-> f.version = RSPAMD_STATFILE_VERSION, f |-> f]
          h1 == [h EXCEPT !.cur_section = conv.f.section]
      IN  IF ~conv.ok THEN [ret |-> -1, h |-> h, f |-> f]
          ELSE IF h1.cur_section.length * SizeofBlock > h1.len
          THEN [ret |-> -1, h |-> h1, f |-> conv.f]
          ELSE [ret |-> 0,
                h |-> [h1 EXCEPT !.seek_pos = SizeofStatFile - SizeofBlock],
                f |-> conv.f]

-----------------------------------------------------------------------------
(* statfile_pool_create.  Returns [w, ret].                                 *)

\* a block count that forgets the section header (a variant the capacity
\* statement must detect)
CreateNBlocksNoSection(size) == (size - SizeofHeader) \div SizeofBlock

\* nblocks = (size - sizeof header - sizeof section) / sizeof block
CreateNBlocks(size) == (size - SizeofHeader - SizeofSection) \div SizeofBlock

\* rspamd_fallocate (fd, 0, len): preallocates len zero bytes when available
rspamd_fallocate(f, len, ok) == IF ok /\ len > f.len THEN ZeroFile(len) ELSE f

\* write (fd, &header, sizeof (header)) at offset 0
WriteHeader(f, nblocks, t) ==
    [f EXCEPT !.len = Max(@, SizeofHeader), !.magic = "rsd",
              !.version = RSPAMD_STATFILE_VERSION, !.create_time = t,
              !.revision = 0, !.rev_time = 0, !.used_blocks = 0,
              !.total_blocks = nblocks]

\* write (fd, &section, sizeof (section)) at offset sizeof (header)
WriteSection(f, code, length) ==
    [f EXCEPT !.len = Max(@, SizeofHeader + SizeofSection),
              !.section = [code |-> code, length |-> length]]

\* the loop writing nblocks zeroed blocks after the section header
WriteBlocks(f, nblocks) ==
    [f EXCEPT !.len = Max(@, SizeofHeader + SizeofSection + nblocks * SizeofBlock),
              !.data = [k \in 1 .. Max(Len(@), 4 * nblocks) |->
                            IF k <= 4 * nblocks THEN 0 ELSE @[k]]]

statfile_pool_create(w, filename, size, t, F) ==
    IF statfile_pool_is_open(w, filename) # NULL THEN [w |-> w, ret |-> 0]
    ELSE IF size < SizeofHeader + SizeofSection + SizeofBlock THEN [w |-> w, ret |-> -1]
    ELSE IF "creat" \in F THEN [w |-> w, ret |-> -1]
    ELSE
      LET nblocks == CreateNBlocks(size)
          f0 == ZeroFile(0)                                  \* O_TRUNC | O_CREAT
          f1 == rspamd_fallocate(f0,
                    SizeofHeader + SizeofSection + SizeofBlock * nblocks,
                    "fallocate" \notin F)
          f2 == WriteHeader(f1, nblocks, t)
          f3 == WriteSection(f2, STATFILE_SECTION_COMMON, nblocks)
          f4 == WriteBlocks(f3, nblocks)
          put(f) == [w EXCEPT !.disk = (filename :> f) @@ @]
      IN  IF "write_header" \in F THEN [w |-> put(f1), ret |-> -1]
          ELSE IF "write_section" \in F THEN [w |-> put(f2), ret |-> -1]
          ELSE IF "write_block" \in F THEN [w |-> put(f3), ret |-> -1]
          ELSE [w |-> put(f4), ret |-> 0]

-----------------------------------------------------------------------------
(* The block table: statfile_pool_get_block, statfile_pool_set_block_common *)

\* byte offset of block number n of the current section of handle h
BlockOff(h, n) == h.seek_pos + n * SizeofBlock

\* A for loop over i = 0 .. CHAIN_LENGTH - 1 is its body applied to the state
\* of the loop for i = lo .. hi - 1 in order; the range is halved so that the
\* depth of the evaluation stays logarithmic.  st.done: the body returned;
\* st.brk: the body left the loop with break.

\* a body that compares hash1 only (a variant the round trip must detect)
GetBodyHash1Only(f, h, h1, h2, st, i) ==
    LET blocknum == h1 % h.cur_section.length
        off == BlockOff(h, blocknum + i)
    IN  IF i + blocknum >= h.cur_section.length THEN [st EXCEPT !.brk = TRUE]
        ELSE IF ~BlockInFile(f, off) THEN [st EXCEPT !.done = TRUE, !.segv = TRUE]
        ELSE LET block == BlockAt(f, off)
             IN  IF block.hash1 = h1
                 THEN [st EXCEPT !.done = TRUE, !.value = block.value, !.seen = @ + 1]
                 ELSE [st EXCEPT !.seen = @ + 1]

\* a body that wraps around the end of the section instead of leaving the
\* loop (a variant the clamping of the probe window must detect)
GetBodyWrap(f, h, h1, h2, st, i) ==
    LET blocknum == h1 % h.cur_section.length
        off == BlockOff(h, (blocknum + i) % h.cur_section.length)
    IN  IF ~BlockInFile(f, off) THEN [st EXCEPT !.done = TRUE, !.segv = TRUE]
        ELSE LET block == BlockAt(f, off)
             IN  IF block.hash1 = h1 /\ block.hash2 = h2
                 THEN [st EXCEPT !.done = TRUE, !.value = block.value, !.seen = @ + 1]
                 ELSE [st EXCEPT !.seen = @ + 1]

\* the body of the for loop of statfile_pool_get_block at iteration i.
\* st.value is the value returned; st.segv: a block outside the mapping was
\* read; st.seen: the number of blocks read so far.
GetBody(f, h, h1, h2, st, i) ==
    LET blocknum == h1 % h.cur_section.length
        off == BlockOff(h, blocknum + i)
    IN  IF i + blocknum >= h.cur_section.length THEN [st EXCEPT !.brk = TRUE]
        ELSE IF ~BlockInFile(f, off) THEN [st EXCEPT !.done = TRUE, !.segv = TRUE]
        ELSE LET block == BlockAt(f, off)
             IN  IF block.hash1 = h1 /\ block.hash2 = h2
                 THEN [st EXCEPT !.done = TRUE, !.value = block.value, !.seen = @ + 1]
                 ELSE [st EXCEPT !.seen = @ + 1]

\* a loop that goes on for a second chain length (a variant the chain bound
\* must detect)
RECURSIVE GetLoopTwice(_, _, _, _, _, _, _)
GetLoopTwice(f, h, h1, h2, st, lo, hi) ==
    IF st.done \/ st.brk \/ lo >= hi THEN st
    ELSE IF hi = lo + 1 THEN GetBody(f, h, h1, h2, st, lo)
    ELSE LET mid == (lo + hi) \div 2
             half == GetLoopTwice(f, h, h1, h2,
                                  GetLoopTwice(f, h, h1, h2, st, lo, mid), mid, hi)
         IN  IF lo = 0 /\ hi = CHAIN_LENGTH
             THEN GetLoopTwice(f, h, h1, h2, half, hi, 2 * hi)
             ELSE half

\* the for loop of statfile_pool_get_block
RECURSIVE GetLoop(_, _, _, _, _, _, _)
GetLoop(f, h, h1, h2, st, lo, hi) ==
    IF st.done \/ st.brk \/ lo >= hi THEN st
    ELSE IF hi = lo + 1 THEN GetBody(f, h, h1, h2, st, lo)
    ELSE LET mid == (lo + hi) \div 2
         IN  GetLoop(f, h, h1, h2, GetLoop(f, h, h1, h2, st, lo, mid), mid, hi)

\* Returns [w, ret]
statfile_pool_get_block(w, i, h1, h2, now) ==
    LET w1 == [w EXCEPT !.files[i].access_time = now]
        h == w1.files[i]
    IN  IF h.map = NULL THEN [w |-> w1, ret |-> DZero]
        ELSE IF h.map = MAP_FAILED      \* (u_char *)file->map + file->seek_pos is read
        THEN [w |-> [w1 EXCEPT !.crashed = TRUE], ret |-> DZero]
        ELSE IF h.cur_section.length = 0
        THEN [w |-> [w1 EXCEPT !.crashed = TRUE], ret |-> DZero]   \* h1 % 0
        ELSE LET r == GetLoop(MapOf(w1, i), h, h1, h2,
                              [done |-> FALSE, brk |-> FALSE, value |-> DZero,
                               segv |-> FALSE, seen |-> 0],
                              0, CHAIN_LENGTH)
             IN  [w |-> [w1 EXCEPT !.crashed = r.segv], ret |-> r.value]

\* a body that fills a free block without counting it (a variant the
\* accounting of used_blocks must detect)
SetBodyNoCount(h, h1, h2, value, st, i) ==
    LET blocknum == h1 % h.cur_section.length
        off == BlockOff(h, blocknum + i)
    IN  IF i + blocknum >= h.cur_section.length THEN [st EXCEPT !.brk = TRUE]
        ELSE IF ~BlockInFile(st.f, off) THEN [st EXCEPT !.done = TRUE, !.segv = TRUE]
        ELSE LET block == BlockAt(st.f, off)
             IN  IF block.hash1 = h1 /\ block.hash2 = h2
                 THEN [st EXCEPT !.done = TRUE, !.f = SetValue(@, off, value),
                                 !.seen = @ + 1]
                 ELSE IF block.hash1 = 0 /\ block.hash2 = 0
                 THEN [st EXCEPT !.done = TRUE,
                                 !.f = SetValue(SetHash2(SetHash1(@, off, h1), off, h2),
                                                off, value),
                                 !.seen = @ + 1]
                 ELSE IF DLess(block.value, st.min)
                 THEN [st EXCEPT !.to_expire = off, !.min = block.value, !.seen = @ + 1]
                 ELSE [st EXCEPT !.seen = @ + 1]

\* a body that does not look for the key (a variant the uniqueness of the
\* keys must detect)
SetBodyNoUpdate(h, h1, h2, value, st, i) ==
    LET blocknum == h1 % h.cur_section.length
        off == BlockOff(h, blocknum + i)
    IN  IF i + blocknum >= h.cur_section.length THEN [st EXCEPT !.brk = TRUE]
        ELSE IF ~BlockInFile(st.f, off) THEN [st EXCEPT !.done = TRUE, !.segv = TRUE]
        ELSE LET block == BlockAt(st.f, off)
             IN  IF block.hash1 = 0 /\ block.hash2 = 0
                 THEN [st EXCEPT !.done = TRUE,
                                 !.f = [SetValue(SetHash2(SetHash1(@, off, h1), off, h2),
                                                 off, value)
                                          EXCEPT !.used_blocks = @ + 1],
                                 !.seen = @ + 1]
                 ELSE IF DLess(block.value, st.min)
                 THEN [st EXCEPT !.to_expire = off, !.min = block.value, !.seen = @ + 1]
                 ELSE [st EXCEPT !.seen = @ + 1]

\* the body of the for loop of statfile_pool_set_block_common at iteration i.
\* st.f is the mapped file, st.to_expire the offset of the candidate or NULL,
\* st.min the least value seen, st.seen the number of blocks read so far.
SetBody(h, h1, h2, value, st, i) ==
    LET blocknum == h1 % h.cur_section.length
        off == BlockOff(h, blocknum + i)
    IN  IF i + blocknum >= h.cur_section.length THEN [st EXCEPT !.brk = TRUE]
        ELSE IF ~BlockInFile(st.f, off) THEN [st EXCEPT !.done = TRUE, !.segv = TRUE]
        ELSE LET block == BlockAt(st.f, off)
             IN  IF block.hash1 = h1 /\ block.hash2 = h2
                 THEN [st EXCEPT !.done = TRUE, !.f = SetValue(@, off, value),
                                 !.seen = @ + 1]
                 ELSE IF block.hash1 = 0 /\ block.hash2 = 0
                 THEN [st EXCEPT !.done = TRUE,
                                 !.f = [SetValue(SetHash2(SetHash1(@, off, h1), off, h2),
                                                 off, value)
                                          EXCEPT !.used_blocks = @ + 1],
                                 !.seen = @ + 1]
                 ELSE IF DLess(block.value, st.min)
                 THEN [st EXCEPT !.to_expire = off, !.min = block.value, !.seen = @ + 1]
                 ELSE [st EXCEPT !.seen = @ + 1]

RECURSIVE SetLoop(_, _, _, _, _, _, _)
SetLoop(h, h1, h2, value, st, lo, hi) ==
    IF st.done \/ st.brk \/ lo >= hi THEN st
    ELSE IF hi = lo + 1 THEN SetBody(h, h1, h2, value, st, lo)
    ELSE LET mid == (lo + hi) \div 2
         IN  SetLoop(h, h1, h2, value, SetLoop(h, h1, h2, value, st, lo, mid), mid, hi)

\* an expiry that always takes the first block of the chain (a variant the
\* eviction statement must detect)
ExpireFirst(h, blocknum, to_expire) == BlockOff(h, blocknum)

\* the block written when the chain holds neither the key nor a free block
ExpireTarget(h, blocknum, to_expire) ==
    IF to_expire # NULL THEN to_expire ELSE BlockOff(h, blocknum)

\* the code after the loop: reached unless the body returned
SetExpire(h, h1, h2, value, st) ==
    LET t == ExpireTarget(h, h1 % h.cur_section.length, st.to_expire)
    IN  IF st.done THEN st
        ELSE IF ~BlockInFile(st.f, t) THEN [st EXCEPT !.segv = TRUE]
        ELSE [st EXCEPT !.f = SetValue(SetHash2(SetHash1(@, t, h1), t, h2), t, value)]

\* a put that sets access_time whatever from_now is (a variant the copy of
\* reindex must differ from)
SetBlockAlwaysTouch(w, i, h1, h2, t, value, from_now) ==
    LET w1 == [w EXCEPT !.files[i].access_time = t]
        h == w1.files[i]
    IN  IF h.map = NULL THEN w1
        ELSE IF h.map = MAP_FAILED THEN [w1 EXCEPT !.crashed = TRUE]
        ELSE IF h.cur_section.length = 0 THEN [w1 EXCEPT !.crashed = TRUE]   \* h1 % 0
        ELSE LET r == SetExpire(h, h1, h2, value,
                                SetLoop(h, h1, h2, value,
                                        [done |-> FALSE, brk |-> FALSE, f |-> MapOf(w1, i),
                                         segv |-> FALSE, to_expire |-> NULL,
                                         min |-> G_MAXDOUBLE, seen |-> 0],
                                        0, CHAIN_LENGTH))
             IN  [w1 EXCEPT !.disk[h.filename] = r.f, !.crashed = r.segv]

\* Returns the world after the call
statfile_pool_set_block_common(w, i, h1, h2, t, value, from_now) ==
    LET w1 == IF from_now THEN [w EXCEPT !.files[i].access_time = t] ELSE w
        h == w1.files[i]
    IN  IF h.map = NULL THEN w1
        ELSE IF h.map = MAP_FAILED THEN [w1 EXCEPT !.crashed = TRUE]
        ELSE IF h.cur_section.length = 0 THEN [w1 EXCEPT !.crashed = TRUE]   \* h1 % 0
        ELSE LET r == SetExpire(h, h1, h2, value,
                                SetLoop(h, h1, h2, value,
                                        [done |-> FALSE, brk |-> FALSE, f |-> MapOf(w1, i),
                                         segv |-> FALSE, to_expire |-> NULL,
                                         min |-> G_MAXDOUBLE, seen |-> 0],
                                        0, CHAIN_LENGTH))
             IN  [w1 EXCEPT !.disk[h.filename] = r.f, !.crashed = r.segv]

statfile_pool_set_block(w, i, h1, h2, now, value) ==
    statfile_pool_set_block_common(w, i, h1, h2, now, value, TRUE)

\* a setter that stores its two arguments in each other's field (a variant
\* the revision statement must detect)
SetRevisionSwapped(w, i, rev, time) ==
    IF i = NULL \/ w.files[i].map = NULL THEN w
    ELSE [w EXCEPT !.disk[w.files[i].filename].revision = time,
                   !.disk[w.files[i].filename].rev_time = rev]

\* statfile_set_revision
statfile_set_revision(w, i, rev, time) ==
    IF i = NULL \/ w.files[i].map = NULL THEN w
    ELSE [w EXCEPT !.disk[w.files[i].filename].revision = rev,
                   !.disk[w.files[i].filename].rev_time = time]

\* statfile_get_total_blocks.  Returns [w, ret]; (guint64) -1 is written -1.
statfile_get_total_blocks(w, i) ==
    IF i = NULL \/ w.files[i].map = NULL THEN [w |-> w, ret |-> -1]
    ELSE LET name == w.files[i].filename
             w1 == IF w.disk[name].total_blocks = 0
                   THEN [w EXCEPT !.disk[name].total_blocks =
                                      w.files[i].cur_section.length]
                   ELSE w
         IN  [w |-> w1, ret |-> w1.disk[name].total_blocks]

-----------------------------------------------------------------------------
(* The probe window of a key, and what a put finds in it                    *)

\* the block numbers of the probe window of hash h1 in the current section of h
Window(h, h1) ==
    {n \in 0 .. h.cur_section.length - 1 :
        /\ n >= (h1 % h.cur_section.length)
        /\ n < (h1 % h.cur_section.length) + CHAIN_LENGTH}

BlockNo(f, h, n) == BlockAt(f, BlockOff(h, n))
HoldsKey(b, h1, h2) == b.hash1 = h1 /\ b.hash2 = h2
IsFree(b) == b.hash1 = 0 /\ b.hash2 = 0

\* what a put of (h1, h2) has to do on table f: "update" a block holding the
\* key, "insert" into a free block, or "expire" a block of a full window
PutKind(f, h, h1, h2) ==
    LET first == {n \in Window(h, h1) :
                     HoldsKey(BlockNo(f, h, n), h1, h2) \/ IsFree(BlockNo(f, h, n))}
        n0 == CHOOSE n \in first : \A m \in first : n <= m
    IN  IF first = {} THEN "expire"
        ELSE IF HoldsKey(BlockNo(f, h, n0), h1, h2) THEN "update" ELSE "insert"

-----------------------------------------------------------------------------
(* statfile_pool_open and rspamd_mmaped_file_reindex.  Both return [w, ret], *)
(* ret the index of the returned handle in pool->files or NULL.  F is the   *)
(* set of system calls that fail during the call.                           *)

\* a backup under the name of the file itself (a variant the keeping of the
\* backup must detect)
BackupSame(filename) == filename

\* g_strconcat (filename, ".old", NULL)
BackupName(filename) == Append(filename, BACKUP_SUFFIX)

\* rename (from, to)
Rename(w, from, to) ==
    [w EXCEPT !.disk = [n \in (DOMAIN @ \ {from}) \cup {to} |->
                            IF n = to THEN @[from] ELSE @[n]],
              !.sys = Append(@, <<"rename", from, to>>)]

\* unlink (name)
Unlink(w, name) ==
    [w EXCEPT !.disk = [n \in DOMAIN @ \ {name} |-> @[n]],
              !.sys = Append(@, <<"unlink", name>>)]

\* one iteration of the copy loop of reindex at byte offset pos of the
\* backup: a put on handle new when hash1 and value there are non-zero
ReindexCopyBody(w, src, new, pos) ==
    LET block == BlockAt(src, pos)
    IN  IF w.crashed THEN w
        ELSE IF block.hash1 # 0 /\ DNonZero(block.value)
        THEN Sys(statfile_pool_set_block_common(w, new, block.hash1,
                     block.hash2, 0, block.value, FALSE),
                 <<"put", block.hash1, block.hash2, block.value,
                   PutKind(MapOf(w, new), w.files[new],
                           block.hash1, block.hash2)>>)
        ELSE w

\* iterations lo .. hi - 1 of the copy loop, iteration k at pos + k * sizeof (block)
RECURSIVE ReindexCopyRange(_, _, _, _, _, _)
ReindexCopyRange(w, src, new, pos, lo, hi) ==
    IF w.crashed \/ lo >= hi THEN w
    ELSE IF hi = lo + 1 THEN ReindexCopyBody(w, src, new, pos + lo * SizeofBlockPtr)
    ELSE LET mid == (lo + hi) \div 2
         IN  ReindexCopyRange(ReindexCopyRange(w, src, new, pos, lo, mid),
                              src, new, pos, mid, hi)

\* the copy loop of reindex from byte offset pos of the backup on: pos
\* advances by sizeof (block), block being a pointer, while
\* old_size - pos >= sizeof (struct stat_file_block).
ReindexCopy(w, src, old_size, new, pos) ==
    LET n == IF old_size - pos < SizeofBlock THEN 0
             ELSE (old_size - pos - SizeofBlock) \div SizeofBlockPtr + 1
    IN  ReindexCopyRange(w, src, new, pos, 0, n)

\* a drift measured against the header alone (a variant the size-drift rule
\* must detect)
DriftOfHeader(size, st_size) == Labs(size - st_size) > SizeofHeader * 2 /\ size > SizeofHeader

\* labs (size - st.st_size) > sizeof (struct stat_file) * 2 && size > sizeof
\* (struct stat_file): the size asked for differs from the size on disk by so
\* much that an open that is not forced reindexes
Drift(size, st_size) == Labs(size - st_size) > SizeofStatFile * 2 /\ size > SizeofStatFile

\* a variant that keeps the advisory lock when the file is rejected
ValidateLockedKeep(w, filename, ret) ==
    [w EXCEPT !.flock = @ \o (IF ret = -1
                              THEN <<(<<"lock", filename>>), (<<"check", filename>>)>>
                              ELSE <<(<<"lock", filename>>), (<<"check", filename>>),
                                     (<<"unlock", filename>>)>>)]

\* rspamd_file_lock (new_file->fd, FALSE); rspamd_mmaped_file_check (new_file);
\* rspamd_file_unlock (new_file->fd, FALSE), the latter on both results of the
\* check; flock is the log of these calls
ValidateLocked(w, filename, ret) ==
    [w EXCEPT !.flock = @ \o <<(<<"lock", filename>>), (<<"check", filename>>),
                               (<<"unlock", filename>>)>>]

RECURSIVE statfile_pool_open(_, _, _, _, _, _)

rspamd_mmaped_file_reindex(w, filename, old_size, size, t, F) ==
    IF size < SizeofHeader + SizeofSection + SizeofBlockPtr THEN [w |-> w, ret |-> NULL]
    ELSE IF "rename" \in F THEN [w |-> w, ret |-> NULL]
    ELSE
      LET backup == BackupName(filename)
          w1 == Rename(w, filename, backup)
          c == statfile_pool_create(w1, filename, size, t, F)
      IN  IF c.ret # 0 THEN [w |-> c.w, ret |-> NULL]
          ELSE
            LET fd == IF "backup_open" \in F THEN -1 ELSE FD
                o == statfile_pool_open(c.w, filename, size, TRUE, t, F)
                src == o.w.disk[backup]
            IN  IF fd = -1 \/ o.ret = NULL THEN [w |-> o.w, ret |-> NULL]
                ELSE IF "backup_mmap" \in F \/ old_size = 0     \* mmap of 0 bytes: EINVAL
                THEN [w |-> o.w, ret |-> NULL]
                ELSE IF old_size < SizeofStatFile - SizeofBlock
                \* old_size - (pos - map) wraps around: the loop runs off the mapping
                THEN [w |-> [o.w EXCEPT !.crashed = TRUE], ret |-> NULL]
                ELSE
                  LET w2 == ReindexCopy(o.w, src, old_size, o.ret,
                                        SizeofStatFile - SizeofBlock)
                      w3 == statfile_set_revision(w2, o.ret, src.revision, src.rev_time)
                  IN  IF w2.crashed THEN [w |-> w2, ret |-> NULL]
                      ELSE [w |-> Unlink(Sys(w3, <<"munmap", backup>>), backup),
                            ret |-> o.ret]

statfile_pool_open(w, filename, size, forced, t, F) ==
    IF statfile_pool_is_open(w, filename) # NULL
    THEN [w |-> w, ret |-> statfile_pool_is_open(w, filename)]
    ELSE IF w.opened >= STATFILES_MAX - 1 THEN [w |-> w, ret |-> NULL]
    ELSE IF filename \notin DOMAIN w.disk \/ "stat" \in F THEN [w |-> w, ret |-> NULL]
    ELSE
      LET st_size == w.disk[filename].len
          slot == w.opened + 1
          \* new_file = &pool->files[pool->opened++]; bzero; ...; pool->opened--
          release(h) == [w EXCEPT !.files = SetSlot(@, slot, h)]
          h0 == [ZeroHandle EXCEPT !.fd = IF "open" \in F THEN -1 ELSE FD]
          h1 == [h0 EXCEPT !.map = IF "mmap" \in F \/ st_size = 0
                                   THEN MAP_FAILED ELSE MAPPED]
          h2 == [h1 EXCEPT !.filename = filename, !.len = st_size]
          mlock == IF w.mlock_ok /\ "mlock" \in F THEN FALSE ELSE w.mlock_ok
          \* if (pool->mlock_ok) mlock (new_file->map, new_file->len)
          chk == rspamd_mmaped_file_check(h2, w.disk[filename], F)
          wl == ValidateLocked(IF w.mlock_ok THEN Sys(w, <<"mlock", filename>>) ELSE w,
                               filename, chk.ret)
          h3 == [chk.h EXCEPT !.open_time = t, !.access_time = t]
      IN  IF ~forced /\ Drift(size, st_size)
          THEN rspamd_mmaped_file_reindex(w, filename, st_size, size, t, F)
          ELSE IF h0.fd = -1 THEN [w |-> release(h0), ret |-> NULL]
          ELSE IF h1.map = MAP_FAILED THEN [w |-> release(h1), ret |-> NULL]
          ELSE IF chk.ret = -1
          THEN [w |-> [wl EXCEPT !.files = SetSlot(@, slot, chk.h),
                                 !.mlock_ok = mlock,
                                 !.disk[filename] = chk.f,
                                 !.sys = Append(@, <<"munmap", filename>>)],
                ret |-> NULL]
          ELSE LET w1 == [wl EXCEPT !.files = SetSlot(@, slot, h3),
                                   !.opened = slot,
                                   !.mlock_ok = mlock,
                                   !.disk[filename] = chk.f]
               IN  [w |-> w1, ret |-> statfile_pool_is_open(w1, filename)]

-----------------------------------------------------------------------------
(* statfile_pool_close and statfile_pool_delete                             *)

\* a variant that fills the hole with the last handle instead of shifting
CloseSwapLast(fs, pos, n) == [fs EXCEPT ![pos] = fs[n]]

\* memmove (pos, pos + 1, (--pool->opened - (pos - pool->files)) * sizeof)
CloseMemmove(fs, pos, n) ==
    [k \in 1 .. Len(fs) |-> IF k >= pos /\ k < n THEN fs[k + 1] ELSE fs[k]]

\* file is &pool->files[i].  Returns [w, ret].
statfile_pool_close(w, i) ==
    LET file == w.files[i]
        pos == statfile_pool_is_open(w, file.filename)
        w1 == IF file.map # NULL
              THEN Sys(Sys(w, <<"msync", file.filename>>), <<"munmap", file.filename>>)
              ELSE w
    IN  IF pos = NULL THEN [w |-> w, ret |-> -1]
        ELSE [w |-> [w1 EXCEPT !.files = CloseMemmove(@, pos, w.opened),
                               !.opened = @ - 1],
              ret |-> 0]

\* for (i = 0; i < pool->opened; i++) statfile_pool_close (pool, &pool->files[i], FALSE)
RECURSIVE DeleteLoop(_, _)
DeleteLoop(w, i) ==
    IF i > w.opened THEN w
    ELSE DeleteLoop(statfile_pool_close(w, i).w, i + 1)

statfile_pool_delete(w) == DeleteLoop(w, 1)

-----------------------------------------------------------------------------
(* The state machine: one action per operation of the engine.               *)

\* the pool as rspamd_mempool_alloc0 leaves it: no invalidate event
NoTimer == [event |-> NULL, pending |-> FALSE, tv_sec |-> 0]

World ==
    [disk |-> disk, files |-> files, opened |-> opened, mlock_ok |-> mlock_ok,
     crashed |-> FALSE, sys |-> <<>>, flock |-> <<>>]

\* the state after a call that left world w; l describes the call
Commit(w, l) ==
    /\ disk' = w.disk
    /\ files' = w.files
    /\ opened' = w.opened
    /\ mlock_ok' = w.mlock_ok
    /\ crashed' = w.crashed
    /\ last' = l @@ [sys |-> w.sys, flock |-> w.flock]
    /\ UNCHANGED <<alive, timer, procs, bloom, exim>>

Running == alive /\ ~crashed

FaultNames ==
    {"stat", "open", "mmap", "mlock", "convert", "rename", "creat", "fallocate",
     "write_header", "write_section", "write_block", "backup_open", "backup_mmap"}
CreateFaultNames == {"creat", "fallocate", "write_header", "write_section", "write_block"}
NoFault == {}
FaultSets(names) == {F \in SUBSET names : Cardinality(F) <= MaxFaults}

Create(p, size, t, F) ==
    /\ Running
    /\ LET r == statfile_pool_create(World, p, size, t, F)
       IN  Commit(r.w, [op |-> "create", path |-> p, size |-> size, ret |-> r.ret,
                        was_open |-> statfile_pool_is_open(World, p) # NULL])

Open(p, size, forced, t, F) ==
    /\ Running
    /\ LET r == statfile_pool_open(World, p, size, forced, t, F)
       IN  Commit(r.w, [op |-> "open", path |-> p, size |-> size, forced |-> forced,
                        ret |-> r.ret,
                        was_open |-> statfile_pool_is_open(World, p) # NULL])

Close(i) ==
    /\ Running
    /\ i \in 1 .. opened
    /\ LET r == statfile_pool_close(World, i)
       IN  Commit(r.w, [op |-> "close", path |-> files[i].filename, ret |-> r.ret])

\* statfile_pool_close on a pointer the caller kept to a slot at or behind
\* pool->opened (the image the memmove of an earlier close left there)
CloseStale(i) ==
    /\ Running
    /\ i \in opened + 1 .. Len(files)
    /\ LET r == statfile_pool_close(World, i)
       IN  Commit(r.w, [op |-> "close", path |-> files[i].filename, ret |-> r.ret])

Delete ==
    /\ Running
    /\ LET w == statfile_pool_delete(World)
       IN  /\ disk' = w.disk
           /\ files' = w.files
           /\ opened' = w.opened
           /\ last' = [op |-> "delete", n |-> opened, sys |-> w.sys]
           /\ alive' = FALSE
           /\ UNCHANGED <<mlock_ok, crashed, timer, procs, bloom, exim>>

Put(i, h1, h2, t, v) ==
    /\ Running
    /\ i \in 1 .. opened
    /\ LET w == statfile_pool_set_block(World, i, h1, h2, t, v)
       IN  Commit(w, [op |-> "put", path |-> files[i].filename, h1 |-> h1, h2 |-> h2,
                      value |-> v])

Get(i, h1, h2, t) ==
    /\ Running
    /\ i \in 1 .. opened
    /\ LET r == statfile_pool_get_block(World, i, h1, h2, t)
       IN  Commit(r.w, [op |-> "get", path |-> files[i].filename, h1 |-> h1, h2 |-> h2,
                        now |-> t, ret |-> r.ret])

SetRevision(i, rev, time) ==
    /\ Running
    /\ i \in 1 .. opened
    /\ Commit(statfile_set_revision(World, i, rev, time),
              [op |-> "set_revision", path |-> files[i].filename])

GetTotalBlocks(i) ==
    /\ Running
    /\ i \in 1 .. opened
    /\ LET r == statfile_get_total_blocks(World, i)
       IN  Commit(r.w, [op |-> "get_total_blocks", path |-> files[i].filename,
                        ret |-> r.ret])

IsOpen(p) ==
    /\ Running
    /\ Commit(World, [op |-> "is_open", path |-> p,
                      ret |-> statfile_pool_is_open(World, p)])

-----------------------------------------------------------------------------
(* Reading the table, for the statements below                              *)

\* what get (h1, h2) returns on handle i in the current state
GetNow(i, h1, h2) == statfile_pool_get_block(World, i, h1, h2, 0).ret

\* the same in the state a step leads to
WorldAfter ==
    [disk |-> disk', files |-> files', opened |-> opened', mlock_ok |-> mlock_ok',
     crashed |-> FALSE, sys |-> <<>>, flock |-> <<>>]
GetAfter(i, h1, h2) == statfile_pool_get_block(WorldAfter, i, h1, h2, 0).ret

NoShadow == [vals |-> <<>>, evicted |-> FALSE]

-----------------------------------------------------------------------------
(* Spec: one statfile, created, filled, closed and reopened at another size *)

PathA == <<"a">>
SmallSize == 352          \* 3 blocks
BigSize == 1008           \* 44 blocks: differs from SmallSize by more than 2 * 320
Sizes == {SmallSize, BigSize}
Keys == {<<3, 1>>, <<1, 1>>, <<2, 1>>}
Values == {<<0, 60>>, <<3, 1>>}
Revisions == {7}
Times == {1}

\* a file that no statfile_pool_create wrote
ForeignFile(len) == [ZeroFile(len) EXCEPT !.magic = "xxx"]

InitDisks == {<<>>, PathA :> ForeignFile(0), PathA :> ForeignFile(SmallSize)}

Init ==
    /\ disk \in InitDisks
    /\ files = <<>>
    /\ opened = 0
    /\ mlock_ok = FALSE
    /\ alive = TRUE
    /\ crashed = FALSE
    /\ last = [op |-> "init"]
    /\ timer = NoTimer
    /\ procs = <<>>
    /\ bloom = NoBloom
    /\ exim = NoClient
    /\ shadow = NoShadow

Next ==
    \/ \E size \in Sizes, t \in Times :
          Create(PathA, size, t, NoFault) /\ UNCHANGED shadow
    \/ \E size \in Sizes, forced \in BOOLEAN, t \in Times :
          Open(PathA, size, forced, t, NoFault) /\ UNCHANGED shadow
    \/ \E i \in 1 .. opened : Close(i) /\ UNCHANGED shadow
    \/ \E i \in 1 .. opened, k \in Keys, t \in Times, v \in Values :
          Put(i, k[1], k[2], t, v) /\ UNCHANGED shadow
    \/ \E i \in 1 .. opened, k \in Keys, t \in Times :
          Get(i, k[1], k[2], t) /\ UNCHANGED shadow
    \/ \E i \in 1 .. opened, rev \in Revisions, time \in Times :
          SetRevision(i, rev, time) /\ UNCHANGED shadow
    \/ Delete /\ UNCHANGED shadow

Spec == Init /\ [][Next]_vars

-----------------------------------------------------------------------------
(* SpecTable: puts and gets on one open handle, either of a freshly created *)
(* file of three blocks, or of a file of CHAIN_LENGTH + 2 blocks in which   *)
(* CHAIN_LENGTH keys of one probe window were put.  shadow.vals records the *)
(* value of the most recent put of every key, shadow.evicted whether some   *)
(* put had to expire a block.                                               *)

TableKeys == {<<1, 1>>, <<4, 1>>, <<1, 2>>, <<0, 5>>}
TableValues == {<<0, 60>>, DZero, G_MAXDOUBLE, DInfinity, DNaN}
TableTimes == {2}

EmptyWorld ==
    [disk |-> <<>>, files |-> <<>>, opened |-> 0, mlock_ok |-> FALSE,
     crashed |-> FALSE, sys |-> <<>>, flock |-> <<>>]

\* the world after create (PathA, SmallSize) and open (PathA, SmallSize)
TableWorld ==
    statfile_pool_open(
        statfile_pool_create(EmptyWorld, PathA, SmallSize, 1, NoFault).w,
        PathA, SmallSize, FALSE, 1, NoFault).w

\* a section whose probe windows end after CHAIN_LENGTH blocks, before its end
ChainBlocks == CHAIN_LENGTH + 2
ChainSize == SizeofHeader + SizeofSection + ChainBlocks * SizeofBlock
ChainKey(j) == <<ChainBlocks, j>>
ChainValue(j) == <<j, 1>>
ChainKeys == {ChainKey(1), ChainKey(CHAIN_LENGTH + 1), <<ChainBlocks + 1, 1>>}
ChainValues == {ChainValue(CHAIN_LENGTH + 1), <<0, 1>>}

\* the world after create and open of a file of ChainSize bytes and the puts
\* of ChainKey (j) with ChainValue (j) at time 1 for j = 1 .. CHAIN_LENGTH:
\* put j finds blocks 0 .. j - 2 taken by other keys and block j - 1 free
ChainData ==
    [k \in 1 .. DataWords(ChainSize) |->
        LET j == (k - 1) \div 4 + 1
            field == (k - 1) % 4
        IN  IF j > CHAIN_LENGTH THEN 0
            ELSE IF field = 0 THEN ChainKey(j)[1]
            ELSE IF field = 1 THEN ChainKey(j)[2]
            ELSE ChainValue(j)[field - 1]]

ChainWorld ==
    LET w == statfile_pool_open(
                 statfile_pool_create(EmptyWorld, PathA, ChainSize, 1, NoFault).w,
                 PathA, ChainSize, FALSE, 1, NoFault).w
    IN  [w EXCEPT !.disk[PathA].data = ChainData,
                  !.disk[PathA].used_blocks = CHAIN_LENGTH]

InitTable ==
    /\ \/ /\ disk = TableWorld.disk
          /\ files = TableWorld.files
          /\ shadow = NoShadow
       \/ /\ disk = ChainWorld.disk
          /\ files = ChainWorld.files
          /\ shadow = [vals |-> [k \in {ChainKey(j) : j \in 1 .. CHAIN_LENGTH} |->
                                    ChainValue(k[2])],
                       evicted |-> FALSE]
    /\ opened = 1
    /\ mlock_ok = FALSE
    /\ alive = TRUE
    /\ crashed = FALSE
    /\ last = [op |-> "init"]
    /\ timer = NoTimer
    /\ procs = <<>>
    /\ bloom = NoBloom
    /\ exim = NoClient

\* the keys and values put on the table at hand
TableInputs ==
    IF files[1].cur_section.length = ChainBlocks
    THEN [keys |-> ChainKeys, values |-> ChainValues]
    ELSE [keys |-> TableKeys, values |-> TableValues]

TablePut(k, t, v) ==
    /\ Put(1, k[1], k[2], t, v)
    /\ shadow' = [vals |-> (k :> v) @@ shadow.vals,
                  evicted |-> shadow.evicted
                              \/ PutKind(MapOf(World, 1), files[1], k[1], k[2]) = "expire"]

TableGet(k, t) == Get(1, k[1], k[2], t) /\ UNCHANGED shadow

NextTable ==
    \/ \E k \in TableInputs.keys, t \in TableTimes, v \in TableInputs.values :
          TablePut(k, t, v)
    \/ \E k \in TableInputs.keys, t \in TableTimes : TableGet(k, t)

SpecTable == InitTable /\ [][NextTable]_vars

\* C1: as long as no put had to expire a block, get returns for every key
\* that was put exactly the value of its most recent put.
C1_RoundTrip ==
    ~shadow.evicted =>
        \A k \in DOMAIN shadow.vals : GetNow(1, k[1], k[2]) = shadow.vals[k]

\* two keys of the same probe window were put, one of them again with another
\* value, nothing was expired, and a get has just returned the stored value
C1_Witness ==
    /\ ~shadow.evicted
    /\ {<<1, 1>>, <<4, 1>>} \subseteq DOMAIN shadow.vals
    /\ shadow.vals[<<4, 1>>] = G_MAXDOUBLE
    /\ shadow.vals[<<1, 1>>] = <<0, 60>>
    /\ BlockNo(MapOf(World, 1), files[1], 1).hash1 = 4
    /\ last.op = "get" /\ last.h1 = 1 /\ last.ret = <<0, 60>>

\* the table under test, its handle, and a key being found in its window
Table == disk[files[1].filename]
Handle == files[1]
Found(f, h, h1, h2) == \E n \in Window(h, h1) : HoldsKey(BlockNo(f, h, n), h1, h2)
KeyOf(b) == <<b.hash1, b.hash2>>

\* the lowest-numbered block among the blocks S of table f whose value no
\* value of S is below
LowestMin(f, h, S) ==
    LET val == [n \in S |-> BlockNo(f, h, n).value]
        mins == {n \in S : \A m \in S : ~DLess(val[m], val[n])}
    IN  CHOOSE n \in mins : \A m \in mins : n <= m

\* the lowest-numbered block of the window of h1 whose value is the minimum
\* of the window
MinBlock(f, h, h1) == LowestMin(f, h, Window(h, h1))

\* this step is a put that finds neither its key nor a free block
ExpiringPut ==
    /\ last'.op = "put"
    /\ PutKind(Table, Handle, last'.h1, last'.h2) = "expire"

\* the blocks of the section the step changes
Changed ==
    {m \in 0 .. Handle.cur_section.length - 1 :
        BlockNo(Table', Handle', m) # BlockNo(Table, Handle, m)}

\* the step overwrites block n with the put's triple and changes no other
\* block; the new key is then retrievable, the key that was in block n is not
\* found any more, and every other key of the window keeps its value
Expires(n) ==
    /\ Changed = {n}
    /\ \A c \in Changed :
          /\ BlockNo(Table', Handle', c) =
                 [hash1 |-> last'.h1, hash2 |-> last'.h2, value |-> last'.value]
          /\ ~Found(Table', Handle', BlockNo(Table, Handle, c).hash1,
                    BlockNo(Table, Handle, c).hash2)
    /\ GetAfter(1, last'.h1, last'.h2) = last'.value
    /\ \A m \in Window(Handle, last'.h1) \ Changed :
          LET b == BlockNo(Table, Handle, m)
          IN  GetAfter(1, b.hash1, b.hash2) = b.value

BelowMax(f, h, h1) ==
    {n \in Window(h, h1) : DLess(BlockNo(f, h, n).value, G_MAXDOUBLE)}

\* the lowest-numbered block holding the minimum of the values below G_MAXDOUBLE
MinBlockBelowMax(f, h, h1) == LowestMin(f, h, BelowMax(f, h, h1))

-----------------------------------------------------------------------------
(* Reindex, under Spec                                                      *)

\* the call described by l was an open that went through reindex and
\* returned a handle
ReindexDone(l) ==
    /\ l.op = "open"
    /\ l.ret # NULL
    /\ Len(l.sys) > 0
    /\ l.sys[1][1] = "rename"

\* the puts reindex issued on the new handle, in order, and what each found
CopyPuts(l) == SelectSeq(l.sys, LAMBDA c : c[1] = "put")
CopyTriples(l) == [n \in 1 .. Len(CopyPuts(l)) |->
                      <<CopyPuts(l)[n][2], CopyPuts(l)[n][3], CopyPuts(l)[n][4]>>]
CopyExpired(l) == \E n \in 1 .. Len(CopyPuts(l)) : CopyPuts(l)[n][5] = "expire"

\* the 16-byte blocks of file f after its header and first section, in file
\* order, and those of them with hash1 != 0 and value != 0
FileBlocks(f) ==
    [n \in 1 .. (f.len - SizeofHeader - SizeofSection) \div SizeofBlock |->
        BlockAt(f, SizeofHeader + SizeofSection + (n - 1) * SizeofBlock)]
IsLive(b) == b.hash1 # 0 /\ DNonZero(b.value)
LiveTriples(f) ==
    LET live == SelectSeq(FileBlocks(f), IsLive)
    IN  [n \in 1 .. Len(live) |-> <<live[n].hash1, live[n].hash2, live[n].value>>]
SeqRange(q) == {q[n] : n \in 1 .. Len(q)}

\* C3: after a successful reindex in which no put had to expire a block,
\* every live block (h1, h2, v) of the source file is retrievable from the
\* returned handle with get (h1, h2) = v.
C3_ReindexPreservesData ==
    [][(ReindexDone(last') /\ ~CopyExpired(last')) =>
          \A b \in SeqRange(LiveTriples(disk[last'.path])) :
              GetAfter(last'.ret, b[1], b[2]) = b[3]]_vars

\* C4: the puts of a successful reindex are exactly the live 16-byte blocks
\* of the source, one put each, in file order; so the destination holds only
\* keys of source blocks, and used_blocks is the number of copied blocks when
\* nothing was expired.
C4_ReindexCopiesLiveBlocks ==
    [][ReindexDone(last') =>
          /\ CopyTriples(last') = LiveTriples(disk[last'.path])
          /\ \A b \in SeqRange(FileBlocks(disk'[last'.path])) :
                 ~IsFree(b) =>
                     \E s \in SeqRange(LiveTriples(disk[last'.path])) :
                         s[1] = b.hash1 /\ s[2] = b.hash2
          /\ ~CopyExpired(last') =>
                 disk'[last'.path].used_blocks = Len(LiveTriples(disk[last'.path]))]_vars

\* C5: after a successful reindex the header of the new file carries the
\* revision and rev_time the source file's header had before.
C5_RevisionPreserved ==
    [][ReindexDone(last') =>
          /\ disk'[last'.path].revision = disk[last'.path].revision
          /\ disk'[last'.path].rev_time = disk[last'.path].rev_time]_vars

\* a reindex has just copied blocks into the larger file, whose header now
\* carries a revision that only statfile_set_revision can have put there
C5_Witness ==
    /\ ReindexDone(last)
    /\ Len(CopyPuts(last)) >= 2
    /\ disk[PathA].len = BigSize
    /\ disk[PathA].revision = 7
    /\ disk[PathA].rev_time = 1

-----------------------------------------------------------------------------
(* SpecCreate: a file is created at some size, opened at that size, asked   *)
(* for its capacity and closed.  shadow.size is the size handed to the     *)
(* create that wrote the file.                                              *)

MinCreateSize == 280
MaxCreateSize == 340
ScenarioSize == 65536
CreateSizes == (MinCreateSize .. MaxCreateSize) \cup {ScenarioSize}

InitCreate ==
    /\ disk = <<>>
    /\ files = <<>>
    /\ opened = 0
    /\ mlock_ok = FALSE
    /\ alive = TRUE
    /\ crashed = FALSE
    /\ last = [op |-> "init"]
    /\ timer = NoTimer
    /\ procs = <<>>
    /\ bloom = NoBloom
    /\ exim = NoClient
    /\ shadow = [size |-> 0]

CreateAt(size) ==
    /\ Create(PathA, size, 1, NoFault)
    /\ shadow' = IF last'.ret = 0 /\ ~last'.was_open THEN [size |-> size] ELSE shadow

OpenCreated ==
    /\ PathA \in DOMAIN disk
    /\ Open(PathA, shadow.size, FALSE, 1, NoFault)
    /\ UNCHANGED shadow

NextCreate ==
    \/ \E size \in CreateSizes : CreateAt(size)
    \/ OpenCreated
    \/ \E i \in 1 .. opened : GetTotalBlocks(i) /\ UNCHANGED shadow
    \/ \E i \in 1 .. opened : Close(i) /\ UNCHANGED shadow

SpecCreate == InitCreate /\ [][NextCreate]_vars

\* total_blocks and the section length of the file at PathA are n, no block
\* is used and there are n blocks, all free
HoldsBlocks(n) ==
    LET f == disk[PathA]
    IN  /\ f.total_blocks = n
        /\ f.section.length = n
        /\ f.used_blocks = 0
        /\ Len(FileBlocks(f)) = n
        /\ \A b \in SeqRange(FileBlocks(f)) : IsFree(b) /\ b.value = DZero

\* create, open and get_total_blocks agree on n blocks for sizes from least on
CapacityIs(n, least) ==
    /\ (last.op = "create" /\ last.size >= least /\ ~last.was_open) =>
           last.ret = 0 /\ last.size = shadow.size /\ HoldsBlocks(n)
    /\ (last.op = "open" /\ shadow.size >= least) =>
           last.ret # NULL /\ files[last.ret].cur_section.length = n
    /\ (last.op = "get_total_blocks" /\ shadow.size >= least) => last.ret = n

\* C6: create (path, S) with S at or above the format minimum writes a file
\* whose total_blocks and whose section length are (S - 256 - 16) / 16, with
\* used_blocks = 0 and that many blocks, all free; open of that file
\* succeeds and get_total_blocks reports the same count.
C6_Capacity ==
    CapacityIs(((IF last.op = "create" THEN last.size ELSE shadow.size) - 256 - 16) \div 16,
               256 + 16 + 16)

\* C6 with the header at its size in the code, 288 bytes: for S >= 320 the
\* counts are (S - 288 - 16) / 16.
C6_CapacityOfLayout ==
    CapacityIs(((IF last.op = "create" THEN last.size ELSE shadow.size) - 288 - 16) \div 16,
               288 + 16 + 16)

\* the file created at 65,536 bytes was opened and reported 4077 blocks
C6_Witness ==
    /\ last.op = "get_total_blocks"
    /\ shadow.size = ScenarioSize
    /\ last.ret = 4077
    /\ disk[PathA].section.length = 4077
    /\ disk[PathA].len = 288 + 16 + 4077 * 16

-----------------------------------------------------------------------------
(* SpecPool: two paths, files created, opened (with at most MaxFaults      *)
(* failing system calls per open), closed and the pool destroyed.          *)

PathB == <<"b">>
PoolPaths == {PathA, PathB}
PoolSizes == {SmallSize, BigSize}

InitPool ==
    /\ disk \in {<<>>, PathA :> ForeignFile(0)}
    /\ files = <<>>
    /\ opened = 0
    /\ mlock_ok = FALSE
    /\ alive = TRUE
    /\ crashed = FALSE
    /\ last = [op |-> "init"]
    /\ timer = NoTimer
    /\ procs = <<>>
    /\ bloom = NoBloom
    /\ exim = NoClient
    /\ shadow = NoShadow

NextPool ==
    \/ \E p \in PoolPaths : Create(p, SmallSize, 1, NoFault) /\ UNCHANGED shadow
    \/ \E size \in PoolSizes, forced \in BOOLEAN :
          Open(PathA, size, forced, 1, NoFault) /\ UNCHANGED shadow
    \/ \E F \in FaultSets(FaultNames) \ {NoFault} :
          Open(PathA, BigSize, FALSE, 1, F) /\ UNCHANGED shadow
    \/ Open(PathB, SmallSize, FALSE, 1, NoFault) /\ UNCHANGED shadow
    \/ \E i \in 1 .. opened : Close(i) /\ UNCHANGED shadow
    \/ \E p \in PoolPaths : IsOpen(p) /\ UNCHANGED shadow
    \/ Delete /\ UNCHANGED shadow

SpecPool == InitPool /\ [][NextPool]_vars

\* the paths of the registered handles, in array order
RegisteredPaths(fs, n) == [i \in 1 .. n |-> fs[i].filename]

Registered(p) == \E i \in 1 .. opened : files[i].filename = p

PathsDistinct ==
    \A i, j \in 1 .. opened : files[i].filename = files[j].filename => i = j

\* C7: open of a path that is already registered returns the registered
\* handle for any size and forced flag, makes no system call (no stat, no
\* rename, no reindex), leaves every file and the pool unchanged; and the
\* registered handles always have pairwise distinct paths.
C7_IdempotentOpen ==
    /\ []PathsDistinct
    /\ [][(last'.op = "open" /\ Registered(last'.path)) =>
             /\ last'.ret # NULL
             /\ last'.ret \in 1 .. opened
             /\ files[last'.ret].filename = last'.path
             /\ last'.sys = <<>>
             /\ disk' = disk
             /\ files' = files
             /\ opened' = opened]_vars

\* PathA is registered and open (PathA, BigSize, forced) of the SmallSize
\* file, which would reindex an unregistered path, returned its handle
C7_Witness ==
    /\ last.op = "open"
    /\ last.path = PathA
    /\ last.was_open
    /\ last.size = BigSize
    /\ disk[PathA].len = SmallSize
    /\ opened = 2
    /\ last.ret = 2

\* the system calls of kind c made on path p during the last call
CallsOn(c, p) == {k \in 1 .. Len(last.sys) : last.sys[k] = <<c, p>>}

\* C9: after statfile_pool_delete, each of the n handles that were open was
\* flushed with msync and unmapped exactly once, and opened is 0.
C9_DeleteClosesAll ==
    [][last'.op = "delete" =>
          /\ opened' = 0
          /\ \A i \in 1 .. opened :
                /\ Cardinality(CallsOn("msync", files[i].filename)') = 1
                /\ Cardinality(CallsOn("munmap", files[i].filename)') = 1]_vars

\* C10: when statfile_pool_open returns NULL, opened and the registered
\* handles are as before the call and is_open (path) is still NULL.
C10_FailedOpenReleasesSlot ==
    [][(last'.op = "open" /\ last'.ret = NULL) =>
          /\ opened' = opened
          /\ RegisteredPaths(files', opened') = RegisteredPaths(files, opened)
          /\ statfile_pool_is_open(WorldAfter, last'.path) = NULL]_vars

-----------------------------------------------------------------------------
(* SpecCap: MaxFiles valid files of the minimal size exist; they are opened *)
(* one after the other, asked for again, or closed right after being opened. *)

MaxFiles == 256
CapPath(k) == <<ToString(k)>>
CapSize == SizeofStatFile
CapFile == statfile_pool_create(EmptyWorld, PathA, CapSize, 1, NoFault).w.disk[PathA]

InitCap ==
    /\ disk = [p \in {CapPath(k) : k \in 1 .. MaxFiles} |-> CapFile]
    /\ files = <<>>
    /\ opened = 0
    /\ mlock_ok = FALSE
    /\ alive = TRUE
    /\ crashed = FALSE
    /\ last = [op |-> "init"]
    /\ timer = NoTimer
    /\ procs = <<>>
    /\ bloom = NoBloom
    /\ exim = NoClient
    /\ shadow = NoShadow

NextCap ==
    \/ \E k \in {opened, opened + 1} \cap (1 .. MaxFiles) :
          Open(CapPath(k), CapSize, FALSE, 1, NoFault) /\ UNCHANGED shadow
    \/ /\ last.op = "open" /\ ~last.was_open /\ last.ret # NULL
       /\ Close(opened) /\ UNCHANGED shadow

SpecCap == InitCap /\ [][NextCap]_vars

\* C8: open of a valid file that is not open yet succeeds whenever fewer than
\* STATFILES_MAX = 255 handles are open, is refused when 255 are open, and
\* opened never exceeds 255.
C8_PoolCapacity ==
    /\ [](opened <= 255)
    /\ [][(last'.op = "open" /\ ~last'.was_open) =>
             /\ opened < 255 => (last'.ret # NULL /\ opened' = opened + 1)
             /\ opened >= 255 => (last'.ret = NULL /\ opened' = opened)]_vars

-----------------------------------------------------------------------------
(* SpecValid: PathA holds a file that no statfile_pool_create wrote, or one *)
(* it wrote; the file is opened at its size or at a larger one, forced or  *)
(* not, read, written and closed.                                           *)

\* the file statfile_pool_create writes at SmallSize
GoodFile == statfile_pool_create(EmptyWorld, PathA, SmallSize, 1, NoFault).w.disk[PathA]

\* the first len bytes of file f
Truncate(f, len) == [f EXCEPT !.len = len, !.data = SubSeq(@, 1, DataWords(len))]

ShortFile == Truncate(GoodFile, SizeofStatFile - 1)
BadMagicFile == [GoodFile EXCEPT !.magic = "xxx"]
BadVersionFile == [GoodFile EXCEPT !.version = "13"]
LegacyFile == [GoodFile EXCEPT !.version = "10"]
\* a first section of more blocks than the whole file has bytes for
TruncatedFile == [GoodFile EXCEPT !.section.length = SmallSize \div SizeofBlock + 1]
\* a first section as long in bytes as the file: it ends beyond the file
OverlongFile == [GoodFile EXCEPT !.section.length = SmallSize \div SizeofBlock]
EmptySectionFile == [GoodFile EXCEPT !.section.length = 0]

ValidFiles ==
    {ForeignFile(0), ShortFile, BadMagicFile, BadVersionFile, LegacyFile,
     TruncatedFile, OverlongFile, EmptySectionFile, GoodFile}

ValidKeys == {<<1, 1>>, <<SmallSize \div SizeofBlock - 1, 1>>}

InitValid ==
    /\ disk \in {PathA :> f : f \in ValidFiles}
    /\ files = <<>>
    /\ opened = 0
    /\ mlock_ok = FALSE
    /\ alive = TRUE
    /\ crashed = FALSE
    /\ last = [op |-> "init"]
    /\ timer = NoTimer
    /\ procs = <<>>
    /\ bloom = NoBloom
    /\ exim = NoClient
    /\ shadow = NoShadow

NextValid ==
    \/ \E size \in Sizes, forced \in BOOLEAN :
          Open(PathA, size, forced, 1, NoFault) /\ UNCHANGED shadow
    \/ \E i \in 1 .. opened : Close(i) /\ UNCHANGED shadow
    \/ \E i \in 1 .. opened, k \in ValidKeys :
          Put(i, k[1], k[2], 1, <<3, 1>>) /\ UNCHANGED shadow
    \/ \E i \in 1 .. opened, k \in ValidKeys :
          Get(i, k[1], k[2], 1) /\ UNCHANGED shadow

SpecValid == InitValid /\ [][NextValid]_vars

\* what rspamd_mmaped_file_check rejects in a file that needs no conversion:
\* too short, a magic other than "rsd", a version that is neither "12" nor
\* the legacy one, a first section of more bytes than the file
Rejected(f) ==
    \/ f.len < SizeofStatFile
    \/ f.magic # "rsd"
    \/ f.version \notin {RSPAMD_STATFILE_VERSION, "10"}
    \/ f.version = RSPAMD_STATFILE_VERSION /\ f.section.length * SizeofBlock > f.len

-----------------------------------------------------------------------------
(* SpecDrift: a statfile of SmallSize or BigSize bytes is opened at sizes   *)
(* around the thresholds of the size-drift rule, written and closed.        *)

DriftMargin == 1

BigFile == statfile_pool_create(EmptyWorld, PathA, BigSize, 1, NoFault).w.disk[PathA]

\* the sizes at distance 2 * unit +- DriftMargin from st_size, and unit +- DriftMargin
Around(st_size, unit) ==
    {st_size + s * (2 * unit + d) : s \in {-1, 1}, d \in -DriftMargin .. DriftMargin}
        \cup {unit + d : d \in -DriftMargin .. DriftMargin}

DriftSizes ==
    {size \in UNION {Around(f.len, unit) : f \in {GoodFile, BigFile},
                                           unit \in {SizeofHeader, SizeofStatFile}} :
        size > 0}

InitDrift ==
    /\ disk \in {PathA :> GoodFile, PathA :> BigFile}
    /\ files = <<>>
    /\ opened = 0
    /\ mlock_ok = FALSE
    /\ alive = TRUE
    /\ crashed = FALSE
    /\ last = [op |-> "init"]
    /\ timer = NoTimer
    /\ procs = <<>>
    /\ bloom = NoBloom
    /\ exim = NoClient
    /\ shadow = NoShadow

NextDrift ==
    \/ \E size \in DriftSizes, forced \in BOOLEAN :
          Open(PathA, size, forced, 1, NoFault) /\ UNCHANGED shadow
    \/ \E i \in 1 .. opened : Close(i) /\ UNCHANGED shadow
    \/ \E i \in 1 .. opened : Put(i, 1, 1, 1, <<3, 1>>) /\ UNCHANGED shadow

SpecDrift == InitDrift /\ [][NextDrift]_vars

\* the call described by l went into reindex: it renamed the file
Reindexed(l) == Len(l.sys) > 0 /\ l.sys[1][1] = "rename"

\* the step is an open of a path that is not open; it reindexes to the size
\* asked for exactly when drift holds, and otherwise maps the file as it is
DriftRule(drift) ==
    (last'.op = "open" /\ ~last'.was_open /\ last'.path \in DOMAIN disk) =>
        /\ Reindexed(last') <=> drift
        /\ last'.ret # NULL
        /\ Reindexed(last') =>
              /\ disk'[last'.path].len =
                     SizeofHeader + SizeofSection
                         + CreateNBlocks(last'.size) * SizeofBlock
              /\ files'[last'.ret].len = disk'[last'.path].len
        /\ ~Reindexed(last') =>
              /\ disk' = disk
              /\ files'[last'.ret].len = disk[last'.path].len

\* C12: open of a path that is not open reindexes to the size asked for
\* exactly when it is not forced, the size differs from the size on disk by
\* more than 2 * 256 and the size is above 256; otherwise it maps the file at
\* its size on disk.
C12_DriftRule ==
    [][DriftRule(/\ ~last'.forced
                 /\ Labs(last'.size - disk[last'.path].len) > 2 * 256
                 /\ last'.size > 256)]_vars

\* C12 with the unit the code uses, sizeof (struct stat_file) = 320: the
\* difference must exceed 640 and the size asked for 320.
C12_DriftRuleOfStatFile ==
    [][DriftRule(/\ ~last'.forced
                 /\ Labs(last'.size - disk[last'.path].len) > 2 * 320
                 /\ last'.size > 320)]_vars

\* the 352-byte file was opened, not forced, at 352 + 641 bytes and
\* reindexed into a file of that size
C12_Witness ==
    /\ last.op = "open"
    /\ ~last.forced
    /\ last.size = GoodFile.len + 2 * SizeofStatFile + 1
    /\ Reindexed(last)
    /\ last.ret # NULL
    /\ disk[PathA].len > GoodFile.len + 2 * SizeofStatFile - SizeofBlock
    /\ files[last.ret].len = disk[PathA].len

-----------------------------------------------------------------------------
(* SpecReindex: a statfile holding two keys and a revision, or an empty     *)
(* file, is opened at the same or a larger size, at the larger size also    *)
(* with at most MaxFaults failing system calls per open, and closed.        *)

\* the world after create, open, two puts, set_revision and close
DataWorld ==
    LET w1 == statfile_pool_set_block(TableWorld, 1, 1, 1, 1, <<3, 1>>)
        w2 == statfile_pool_set_block(w1, 1, 2, 1, 1, <<0, 60>>)
        w3 == statfile_set_revision(w2, 1, 7, 1)
    IN  statfile_pool_close(w3, 1).w

DataFile == DataWorld.disk[PathA]

InitReindex ==
    /\ disk \in {PathA :> DataFile, PathA :> ForeignFile(0)}
    /\ files = <<>>
    /\ opened = 0
    /\ mlock_ok \in BOOLEAN
    /\ alive = TRUE
    /\ crashed = FALSE
    /\ last = [op |-> "init"]
    /\ timer = NoTimer
    /\ procs = <<>>
    /\ bloom = NoBloom
    /\ exim = NoClient
    /\ shadow = NoShadow

NextReindex ==
    \/ \E size \in Sizes, forced \in BOOLEAN :
          Open(PathA, size, forced, 1, NoFault) /\ UNCHANGED shadow
    \/ \E F \in FaultSets(FaultNames) \ {NoFault} :
          Open(PathA, BigSize, FALSE, 1, F) /\ UNCHANGED shadow
    \/ \E i \in 1 .. opened : Close(i) /\ UNCHANGED shadow

SpecReindex == InitReindex /\ [][NextReindex]_vars

\* the positions of the unlink calls in the system calls of call l
Unlinks(l) == {k \in 1 .. Len(l.sys) : l.sys[k][1] = "unlink"}

\* C13: an open that reindexes unlinks the backup only as its last step, when
\* it succeeds, after a put for every live block of the source and with the
\* revision transferred; when it fails after the rename it returns NULL and
\* the backup exists with the contents the file had; when it fails before the
\* rename the directory is untouched.
C13_BackupKept ==
    [][(last'.op = "open" /\ ~last'.was_open /\ last'.path \in DOMAIN disk) =>
          LET backup == Append(last'.path, BACKUP_SUFFIX)
              src == disk[last'.path]
          IN  /\ Unlinks(last') # {} =>
                    /\ Unlinks(last') = {Len(last'.sys)}
                    /\ last'.sys[Len(last'.sys)] = <<"unlink", backup>>
                    /\ Reindexed(last')
                    /\ last'.ret # NULL
                    /\ SeqRange(LiveTriples(src)) \subseteq SeqRange(CopyTriples(last'))
                    /\ disk'[last'.path].revision = src.revision
                    /\ disk'[last'.path].rev_time = src.rev_time
              /\ (Reindexed(last') /\ last'.ret # NULL) =>
                    Unlinks(last') # {} /\ backup \notin DOMAIN disk'
              /\ (Reindexed(last') /\ last'.ret = NULL) =>
                    /\ backup \in DOMAIN disk'
                    /\ disk'[backup] = src
              /\ (/\ ~last'.forced
                  /\ Drift(last'.size, src.len)
                  /\ ~Reindexed(last')) =>
                    last'.ret = NULL /\ disk' = disk]_vars

\* a reindex of the file with two keys failed after the rename: the new file
\* exists, the backup holds the two keys and the revision
C13_Witness ==
    /\ last.op = "open"
    /\ Reindexed(last)
    /\ last.ret = NULL
    /\ PathA \in DOMAIN disk
    /\ disk[PathA].len = BigSize
    /\ BackupName(PathA) \in DOMAIN disk
    /\ disk[BackupName(PathA)] = DataFile
    /\ DataFile.revision = 7
    /\ Len(LiveTriples(DataFile)) = 2

-----------------------------------------------------------------------------
(* statfile_pool_set_block_common, one memory access at a time: the puts of *)
(* processes that share the mapping of one file.  Every process has its own *)
(* copy of the handle (seek_pos, cur_section) and runs the code of the put   *)
(* on the shared file; a step is one read or one write of a field of a      *)
(* block or of the header.  l is the state of the put of one process: its   *)
(* arguments, the loop counter i, to_expire, min, and tmp, the used_blocks   *)
(* it read.                                                                  *)

IdlePut ==
    [pc |-> "idle", h1 |-> 0, h2 |-> 0, value |-> DZero, i |-> 0,
     to_expire |-> NULL, min |-> DZero, tmp |-> 0]

\* the entry of the put: locals initialised, at the head of the loop
StartPut(h1, h2, value) ==
    [pc |-> "loop", h1 |-> h1, h2 |-> h2, value |-> value, i |-> 0,
     to_expire |-> NULL, min |-> G_MAXDOUBLE, tmp |-> 0]

\* an increment that counts two blocks (a variant the bound on used_blocks
\* must detect)
IncUsedTwice(f, tmp) == [f EXCEPT !.used_blocks = tmp + 2]

\* the store of header->used_blocks++
IncUsed(f, tmp) == [f EXCEPT !.used_blocks = tmp + 1]

\* one step of the put in state l of a process with handle h on the shared
\* file f.  Returns [f, l, segv].
PutStep(f, h, l) ==
    LET blocknum == l.h1 % h.cur_section.length
        off == BlockOff(h, blocknum + l.i)
        target == ExpireTarget(h, blocknum, l.to_expire)
        at == IF l.pc \in {"expire1", "expire2", "expire3"} THEN target ELSE off
        go(pc) == [f |-> f, l |-> [l EXCEPT !.pc = pc], segv |-> FALSE]
        wr(g, pc) == [f |-> g, l |-> [l EXCEPT !.pc = pc], segv |-> FALSE]
    IN  IF l.pc = "loop"
        THEN IF l.i >= CHAIN_LENGTH \/ l.i + blocknum >= h.cur_section.length
             THEN go("expire1")
             ELSE go("key1")
        ELSE IF ~BlockInFile(f, at)
        THEN [f |-> f, l |-> IdlePut, segv |-> TRUE]
        ELSE CASE l.pc = "key1" ->       \* block->hash1 == h1
                    IF BlockAt(f, at).hash1 = l.h1 THEN go("key2") ELSE go("free1")
               [] l.pc = "key2" ->       \* && block->hash2 == h2
                    IF BlockAt(f, at).hash2 = l.h2 THEN go("update") ELSE go("free1")
               [] l.pc = "update" ->     \* block->value = value; return
                    wr(SetValue(f, at, l.value), "idle")
               [] l.pc = "free1" ->      \* block->hash1 == 0
                    IF BlockAt(f, at).hash1 = 0 THEN go("free2") ELSE go("min")
               [] l.pc = "free2" ->      \* && block->hash2 == 0
                    IF BlockAt(f, at).hash2 = 0 THEN go("insert1") ELSE go("min")
               [] l.pc = "insert1" -> wr(SetHash1(f, at, l.h1), "insert2")
               [] l.pc = "insert2" -> wr(SetHash2(f, at, l.h2), "insert3")
               [] l.pc = "insert3" -> wr(SetValue(f, at, l.value), "used1")
               [] l.pc = "used1" ->      \* the load of header->used_blocks++
                    [f |-> f, l |-> [l EXCEPT !.pc = "used2", !.tmp = f.used_blocks],
                     segv |-> FALSE]
               [] l.pc = "used2" -> wr(IncUsed(f, l.tmp), "idle")
               [] l.pc = "min" ->        \* block->value < min; the next block
                    [f |-> f,
                     l |-> IF DLess(BlockAt(f, at).value, l.min)
                           THEN [l EXCEPT !.pc = "loop", !.i = @ + 1, !.to_expire = at,
                                          !.min = BlockAt(f, at).value]
                           ELSE [l EXCEPT !.pc = "loop", !.i = @ + 1],
                     segv |-> FALSE]
               [] l.pc = "expire1" -> wr(SetHash1(f, at, l.h1), "expire2")
               [] l.pc = "expire2" -> wr(SetHash2(f, at, l.h2), "expire3")
               [] l.pc = "expire3" -> wr(SetValue(f, at, l.value), "idle")

-----------------------------------------------------------------------------
(* SpecShared: two processes share the mapping of one statfile of           *)
(* SharedBlocks blocks, which the first handle of the pool has open; each   *)
(* starts puts and runs them step by step, in any interleaving.             *)
(* shadow.overlap: some put was started while another one was in progress.  *)

Procs == {1, 2}
SharedBlocks == 1
SharedSize == SizeofHeader + SizeofSection + SharedBlocks * SizeofBlock
SharedKeys == {<<SharedBlocks, 1>>, <<2 * SharedBlocks, 1>>}
SharedValues == {<<3, 1>>}

SharedWorld ==
    statfile_pool_open(
        statfile_pool_create(EmptyWorld, PathA, SharedSize, 1, NoFault).w,
        PathA, SharedSize, FALSE, 1, NoFault).w

InitShared ==
    /\ disk = SharedWorld.disk
    /\ files = SharedWorld.files
    /\ opened = 1
    /\ mlock_ok = FALSE
    /\ alive = TRUE
    /\ crashed = FALSE
    /\ last = [op |-> "init"]
    /\ shadow = [overlap |-> FALSE]
    /\ timer = NoTimer
    /\ procs = [p \in Procs |-> IdlePut]
    /\ bloom = NoBloom
    /\ exim = NoClient

\* process p calls statfile_pool_set_block (pool, file, h1, h2, now, value)
SharedStart(p, h1, h2, value) ==
    /\ Running
    /\ procs[p].pc = "idle"
    /\ files[1].map # NULL
    /\ files[1].cur_section.length # 0
    /\ procs' = [procs EXCEPT ![p] = StartPut(h1, h2, value)]
    /\ shadow' = [overlap |-> shadow.overlap \/ \E q \in Procs : procs[q].pc # "idle"]
    /\ last' = [op |-> "put_start", proc |-> p, h1 |-> h1, h2 |-> h2, value |-> value]
    /\ UNCHANGED <<disk, files, opened, mlock_ok, alive, crashed, timer, bloom, exim>>

\* process p makes the next memory access of its put
SharedStep(p) ==
    /\ Running
    /\ procs[p].pc # "idle"
    /\ LET r == PutStep(Table, Handle, procs[p])
       IN  /\ disk' = [disk EXCEPT ![Handle.filename] = r.f]
           /\ procs' = [procs EXCEPT ![p] = r.l]
           /\ crashed' = r.segv
           /\ last' = [op |-> "put_step", proc |-> p, pc |-> procs[p].pc]
    /\ UNCHANGED <<files, opened, mlock_ok, alive, shadow, timer, bloom, exim>>

NextShared ==
    \/ \E p \in Procs, k \in SharedKeys, v \in SharedValues : SharedStart(p, k[1], k[2], v)
    \/ \E p \in Procs : SharedStep(p)

SpecShared == InitShared /\ [][NextShared]_vars

-----------------------------------------------------------------------------
(* The bounds of a handle, under SpecValid                                  *)

\* C15: every open handle has a current section of at least one block that
\* ends inside the mapping: seek_pos + cur_section.length * 16 <= len; so
\* validation has rejected every file whose first section would end beyond it.
C15_HandleBounds ==
    \A i \in 1 .. opened :
        /\ files[i].cur_section.length >= 1
        /\ files[i].seek_pos + files[i].cur_section.length * SizeofBlock <= files[i].len

-----------------------------------------------------------------------------
(* The chain bound, under SpecTable                                         *)

\* the number of blocks the loop of get (h1, h2) reads on handle i of world w
GetInspected(w, i, h1, h2) ==
    GetLoop(MapOf(w, i), w.files[i], h1, h2,
            [done |-> FALSE, brk |-> FALSE, value |-> DZero, segv |-> FALSE, seen |-> 0],
            0, CHAIN_LENGTH).seen

\* the number of blocks the loop of put (h1, h2, value) reads on handle i of w
PutInspected(w, i, h1, h2, value) ==
    SetLoop(w.files[i], h1, h2, value,
            [done |-> FALSE, brk |-> FALSE, f |-> MapOf(w, i), segv |-> FALSE,
             to_expire |-> NULL, min |-> G_MAXDOUBLE, seen |-> 0],
            0, CHAIN_LENGTH).seen

\* C16: every get and every put returns after reading at most CHAIN_LENGTH
\* blocks, whatever the key and the contents of the table.
C16_ChainBound ==
    [][/\ last'.op = "get" =>
             /\ GetInspected(World, 1, last'.h1, last'.h2) <= CHAIN_LENGTH
             /\ ~crashed'
       /\ last'.op = "put" =>
             /\ PutInspected(World, 1, last'.h1, last'.h2, last'.value) <= CHAIN_LENGTH
             /\ ~crashed']_vars

\* on the section of CHAIN_LENGTH + 2 blocks a get of a key that is in none
\* of the CHAIN_LENGTH full blocks of its window has read all of them, and
\* no more, and returned 0
C16_Witness ==
    /\ last.op = "get"
    /\ Handle.cur_section.length = ChainBlocks
    /\ last.ret = DZero
    /\ GetInspected(World, 1, last.h1, last.h2) = CHAIN_LENGTH
    /\ \A n \in Window(Handle, last.h1) : ~IsFree(BlockNo(Table, Handle, n))
    /\ ~crashed

-----------------------------------------------------------------------------
(* The invalidate timer: statfile_pool_plan_invalidate and the callback.    *)
(* timer.event is pool->invalidate_event (NULL or allocated), timer.tv_sec  *)
(* pool->invalidate_tv.tv_sec, timer.pending what evtimer_pending reports:  *)
(* a one-shot event is pending from evtimer_add until it fires.             *)

EVENT == 1      \* a non-NULL struct event

\* g_random_int_range (begin, end): a value in [begin, end), chosen by r;
\* begin when the range is empty
g_random_int_range(begin, end, r) ==
    IF end > begin THEN begin + (r % (end - begin)) ELSE begin

\* a callback that walks the whole handle array, stale entries included (a
\* variant the flush must detect)
InvalidateWholeArray(w) ==
    [w EXCEPT !.sys = @ \o [i \in 1 .. Len(w.files) |-> <<"msync", w.files[i].filename>>]]

\* statfile_pool_invalidate_callback: msync (file->map, file->len, MS_ASYNC)
\* for the first pool->opened handles.  Returns the world.
statfile_pool_invalidate_callback(w) ==
    [w EXCEPT !.sys = @ \o [i \in 1 .. w.opened |-> <<"msync", w.files[i].filename>>]]

\* statfile_pool_plan_invalidate.  Returns the timer.
statfile_pool_plan_invalidate(tm, seconds, jitter, r) ==
    IF tm.event # NULL
    THEN IF tm.pending
         THEN [tm EXCEPT !.tv_sec = seconds + g_random_int_range(0, jitter, r)]
         ELSE tm
    ELSE [event |-> EVENT, pending |-> TRUE,
          tv_sec |-> seconds + g_random_int_range(0, jitter, r)]

PlanInvalidate(seconds, jitter, r) ==
    /\ Running
    /\ timer' = statfile_pool_plan_invalidate(timer, seconds, jitter, r)
    /\ last' = [op |-> "plan_invalidate", seconds |-> seconds, jitter |-> jitter,
                was_pending |-> timer.pending, sys |-> <<>>]
    /\ UNCHANGED <<disk, files, opened, mlock_ok, alive, crashed, shadow, procs, bloom, exim>>

\* the event loop runs the callback of the pending timer
Fire ==
    /\ Running
    /\ timer.pending
    /\ timer' = [timer EXCEPT !.pending = FALSE]
    /\ LET w == statfile_pool_invalidate_callback(World)
       IN  /\ disk' = w.disk
           /\ files' = w.files
           /\ opened' = w.opened
           /\ mlock_ok' = w.mlock_ok
           /\ crashed' = w.crashed
           /\ last' = [op |-> "fire", sys |-> w.sys]
    /\ UNCHANGED <<alive, shadow, procs, bloom, exim>>

-----------------------------------------------------------------------------
(* SpecTimer: two statfiles are opened and closed while the invalidate      *)
(* timer is planned and fires.                                              *)

MaxSeconds == 2
MaxJitter == 2

InitTimer ==
    /\ disk = [p \in PoolPaths |-> GoodFile]
    /\ files = <<>>
    /\ opened = 0
    /\ mlock_ok = FALSE
    /\ alive = TRUE
    /\ crashed = FALSE
    /\ last = [op |-> "init"]
    /\ shadow = NoShadow
    /\ timer = NoTimer
    /\ procs = <<>>
    /\ bloom = NoBloom
    /\ exim = NoClient

NextTimer ==
    \/ \E p \in PoolPaths : Open(p, SmallSize, FALSE, 1, NoFault) /\ UNCHANGED shadow
    \/ \E i \in 1 .. opened : Close(i) /\ UNCHANGED shadow
    \/ \E seconds \in 1 .. MaxSeconds, jitter \in 0 .. MaxJitter, r \in 0 .. MaxJitter :
          PlanInvalidate(seconds, jitter, r)
    \/ Fire

SpecTimer == InitTimer /\ [][NextTimer]_vars

\* C17: when the timer fires, the callback issues msync once for every
\* handle that is open and for nothing else, and changes neither the handle
\* array nor any file.
C17_FlushOnFire ==
    [][last'.op = "fire" =>
          /\ Len(last'.sys) = opened
          /\ \A i \in 1 .. opened :
                Cardinality({k \in 1 .. Len(last'.sys) :
                                last'.sys[k] = <<"msync", files[i].filename>>}) = 1
          /\ disk' = disk
          /\ files' = files
          /\ opened' = opened]_vars

\* the timer has fired while one handle was open and another one had been
\* closed: one msync, for the open handle
C17_Witness ==
    /\ last.op = "fire"
    /\ opened = 1
    /\ Len(files) = 2
    /\ last.sys = <<(<<"msync", files[1].filename>>)>>
    /\ ~timer.pending

\* C18: after every plan_invalidate (seconds, jitter) the timer is pending
\* with a delay between seconds and seconds + jitter, whether there was no
\* timer, a pending one, or one that has fired.
C18_PlanAlwaysArms ==
    [][last'.op = "plan_invalidate" =>
          /\ timer'.pending
          /\ last'.seconds <= timer'.tv_sec
          /\ timer'.tv_sec <= last'.seconds + last'.jitter]_vars

-----------------------------------------------------------------------------
(* statfile_pool_lockall and SpecLock: two statfiles are opened, with mlock *)
(* failing or not, closed, and locked with statfile_pool_lockall.           *)

\* a lockall that goes on after a failed mlock (a variant the mlock policy
\* must detect)
LockAllNoStop(w, fail) ==
    IF w.mlock_ok
    THEN [w EXCEPT !.sys = @ \o [i \in 1 .. w.opened |-> <<"mlock", w.files[i].filename>>],
                   !.mlock_ok = fail \notin 1 .. w.opened]
    ELSE w

\* statfile_pool_lockall; fail is the index of the first handle whose mlock
\* fails, 0 when none does.  Returns the world.
statfile_pool_lockall(w, fail) ==
    LET n == IF fail \in 1 .. w.opened THEN fail ELSE w.opened
    IN  IF w.mlock_ok
        THEN [w EXCEPT !.sys = @ \o [i \in 1 .. n |-> <<"mlock", w.files[i].filename>>],
                       !.mlock_ok = fail \notin 1 .. w.opened]
        ELSE w

LockAll(fail) ==
    /\ Running
    /\ Commit(statfile_pool_lockall(World, fail), [op |-> "lockall", fail |-> fail])

InitLock ==
    /\ disk = [p \in PoolPaths |-> GoodFile]
    /\ files = <<>>
    /\ opened = 0
    /\ mlock_ok \in BOOLEAN
    /\ alive = TRUE
    /\ crashed = FALSE
    /\ last = [op |-> "init"]
    /\ shadow = NoShadow
    /\ timer = NoTimer
    /\ procs = <<>>
    /\ bloom = NoBloom
    /\ exim = NoClient

NextLock ==
    \/ \E p \in PoolPaths, size \in PoolSizes, F \in {NoFault, {"mlock"}} :
          Open(p, size, FALSE, 1, F) /\ UNCHANGED shadow
    \/ \E i \in 1 .. opened : Close(i) /\ UNCHANGED shadow
    \/ \E fail \in 0 .. opened : LockAll(fail) /\ UNCHANGED shadow

SpecLock == InitLock /\ [][NextLock]_vars

\* the mlock calls among the system calls of call l
Mlocks(l) == SelectSeq(l.sys, LAMBDA c : c[1] = "mlock")

-----------------------------------------------------------------------------
(* SpecHandles: statfiles are opened and closed in any order; shadow.refs   *)
(* remembers every reference open has returned (a path and the array slot   *)
(* &pool->files[i] the caller holds) until that path is closed or the pool  *)
(* is deleted.                                                              *)

PathC == <<"c">>
HandlePaths == {PathA, PathB, PathC}

InitHandles ==
    /\ disk = [p \in HandlePaths |-> GoodFile]
    /\ files = <<>>
    /\ opened = 0
    /\ mlock_ok = FALSE
    /\ alive = TRUE
    /\ crashed = FALSE
    /\ last = [op |-> "init"]
    /\ shadow = [refs |-> {}]
    /\ timer = NoTimer
    /\ procs = <<>>
    /\ bloom = NoBloom
    /\ exim = NoClient

NextHandles ==
    \/ \E p \in HandlePaths, size \in PoolSizes :
          /\ Open(p, size, FALSE, 1, NoFault)
          /\ shadow' = [refs |-> IF last'.ret = NULL THEN shadow.refs
                                 ELSE shadow.refs \cup {<<p, last'.ret>>}]
    \/ \E i \in 1 .. opened :
          /\ Close(i)
          /\ shadow' = [refs |-> {r \in shadow.refs : r[1] # files[i].filename}]
    \/ Delete /\ shadow' = [refs |-> {}]

SpecHandles == InitHandles /\ [][NextHandles]_vars

\* C20: every reference open returned for a path that has not been closed
\* since still points at the handle of that path: same file name, a mapping
\* and a descriptor.
C20_HandleStable ==
    \A r \in shadow.refs :
        /\ files[r[2]].filename = r[1]
        /\ files[r[2]].map = MAPPED
        /\ files[r[2]].fd = FD

-----------------------------------------------------------------------------
(* Sections: statfile_pool_add_section and statfile_pool_set_section        *)

SizeBits == 16           \* width of a modelled size_t / guint64 / off_t
SizeMod == 2 ^ SizeBits

\* write (fd, ...) of the words ws at the end of file f (after lseek SEEK_END);
\* the files of the model are written by create and end on a block boundary
AppendWords(f, ws) ==
    [f EXCEPT !.data = @ \o ws, !.len = @ + SizeofWord * Len(ws)]

\* the value of length when `while (length--)` has ended: 0 - 1 in guint64
LengthAfterLoop(length) == (0 - 1) % SizeMod

\* file->len += length, with the length the loop has left
LenAfterAdd(len, length) == (len + LengthAfterLoop(length)) % SizeMod

\* statfile_pool_add_section on handle i.  Returns [w, ret].
statfile_pool_add_section(w, i, code, length, F) ==
    LET h == w.files[i]
        name == h.filename
        f0 == w.disk[name]
        \* struct stat_file_section: guint64 code, guint64 length
        f1 == AppendWords(f0, <<code, 0, length, 0>>)
        f2 == AppendWords(f1, Zeros(4 * length))
        w1 == Sys([w EXCEPT !.disk[name] = f1], <<"write", name, SizeofSection>>)
        w2 == Sys([w1 EXCEPT !.disk[name] = f2], <<"write", name, length * SizeofBlock>>)
        \* statfile_pool_lock_file (pool, file); munmap; fsync
        w3 == Sys(Sys(Sys(w2, <<"lock_file", name>>), <<"munmap", name, h.len>>),
                  <<"fsync", name>>)
        len == LenAfterAdd(h.len, length)
        \* the result of mmap is compared with NULL, which MAP_FAILED is not
        map == IF "mmap" \in F \/ len = 0 THEN MAP_FAILED ELSE MAPPED
        w4 == Sys([w3 EXCEPT !.files[i].len = len, !.files[i].map = map],
                  <<"mmap", name, len>>)
    IN  IF "lseek" \in F THEN [w |-> w, ret |-> FALSE]
        ELSE IF "write_section" \in F THEN [w |-> w, ret |-> FALSE]
        ELSE IF "write_block" \in F /\ length > 0 THEN [w |-> w1, ret |-> FALSE]
        ELSE IF map = NULL THEN [w |-> w4, ret |-> FALSE]
        ELSE [w |-> Sys(w4, <<"unlock_file", name>>), ret |-> TRUE]

\* byte k of a little-endian field that holds the value v < 2^31
ByteOf(v, k) == IF k < 4 THEN (v \div (256 ^ k)) % 256 ELSE 0

\* the byte at offset off >= sizeof (header) of the mapped file f: the first
\* section header (two guint64), then the words of the data area; the bytes
\* of the last page behind the end of the file read as 0
ByteAt(f, off) ==
    IF off >= f.len THEN 0
    ELSE IF off < SizeofHeader + 8 THEN ByteOf(f.section.code, off - SizeofHeader)
    ELSE IF off < SizeofHeader + SizeofSection
    THEN ByteOf(f.section.length, off - SizeofHeader - 8)
    ELSE ByteOf(f.data[WordIdx(off)], off % SizeofWord)

\* the guint64 loaded from offset off: v its value when it is below 2^24,
\* far when it is not, neg when its top bit is set
Read64(f, off) ==
    LET b == [k \in 0 .. 7 |-> ByteAt(f, off + k)]
    IN  [v |-> b[0] + 256 * b[1] + 65536 * b[2],
         far |-> \E k \in 3 .. 7 : b[k] # 0,
         neg |-> b[7] >= 128]

\* one evaluation of the loop condition and body of statfile_pool_set_section
\* in loop state st = [off, done, ret, hang, fault]; trap: the build faults
\* on a misaligned load instead of performing it
SetSectionStep(f, h, code, trap, st) ==
    LET c == Read64(f, st.off)
        l == Read64(f, st.off + 8)
    IN  IF st.done THEN st
        ELSE IF st.off >= h.len THEN [st EXCEPT !.done = TRUE]
        ELSE IF trap /\ st.off % 8 # 0 THEN [st EXCEPT !.done = TRUE, !.fault = TRUE]
        ELSE IF ~c.far /\ c.v = code THEN [st EXCEPT !.done = TRUE, !.ret = TRUE]
        \* cur_offset += sec->length
        ELSE IF l.far /\ l.neg THEN [st EXCEPT !.done = TRUE, !.fault = TRUE]
        ELSE IF l.far THEN [st EXCEPT !.done = TRUE]
        ELSE IF l.v = 0 THEN [st EXCEPT !.done = TRUE, !.hang = TRUE]
        ELSE [st EXCEPT !.off = @ + l.v]

\* n evaluations in a row; the range is halved, and the loop state is
\* computed once before it is used
RECURSIVE SetSectionLoop(_, _, _, _, _, _)
SetSectionLoop(f, h, code, trap, st, n) ==
    LET Go(s) ==
            IF s.done \/ n <= 0 THEN s
            ELSE IF n = 1 THEN SetSectionStep(f, h, code, trap, s)
            ELSE SetSectionLoop(f, h, code, trap,
                                SetSectionLoop(f, h, code, trap, s, n \div 2),
                                n - n \div 2)
    IN  CHOOSE r \in {Go(s) : s \in {st}} : TRUE

\* statfile_pool_set_section on handle i.  Returns [w, ret, hang]: hang when
\* the loop never ends; w.crashed when the process is lost (fault or hang).
statfile_pool_set_section(w, i, code, from_begin, trap) ==
    LET h == w.files[i]
        f == MapOf(w, i)
        start == IF from_begin THEN SizeofHeader ELSE h.seek_pos - SizeofSection
        st == SetSectionLoop(f, h, code, trap,
                  [off |-> start, done |-> FALSE, ret |-> FALSE,
                   hang |-> FALSE, fault |-> FALSE],
                  Max(h.len - start, 0) + 1)
    IN  IF st.fault \/ st.hang
        THEN [w |-> [w EXCEPT !.crashed = TRUE], ret |-> FALSE, hang |-> st.hang]
        ELSE IF st.ret
        THEN [w |-> [w EXCEPT !.files[i].cur_section =
                                   [code |-> code, length |-> Read64(f, st.off + 8).v],
                               !.files[i].seek_pos = st.off + SizeofSection],
              ret |-> TRUE, hang |-> FALSE]
        ELSE [w |-> w, ret |-> FALSE, hang |-> FALSE]

AddSection(i, code, length, F) ==
    /\ Running
    /\ i \in 1 .. opened
    /\ LET r == statfile_pool_add_section(World, i, code, length, F)
       IN  Commit(r.w, [op |-> "add_section", path |-> files[i].filename, i |-> i,
                        code |-> code, length |-> length, ret |-> r.ret])

SetSection(i, code, from_begin, trap) ==
    /\ Running
    /\ i \in 1 .. opened
    /\ LET r == statfile_pool_set_section(World, i, code, from_begin, trap)
       IN  Commit(r.w, [op |-> "set_section", path |-> files[i].filename, i |-> i,
                        code |-> code, from_begin |-> from_begin, ret |-> r.ret,
                        hang |-> r.hang])

-----------------------------------------------------------------------------
(* SpecSection: one statfile written by create; sections are appended to    *)
(* the open handle and looked up, blocks are put.  shadow.sections lists    *)
(* the sections appended with success: code, length and the byte offset of  *)
(* the section header (the end of the file before the append);              *)
(* shadow.calls counts the calls of add_section.                            *)

MaxAppends == 2
MaxSectionLength == 2
SectionCodes == {2, 3}
SectionKeys == {<<1, 1>>}

InitSection ==
    /\ disk = PathA :> GoodFile
    /\ files = <<>>
    /\ opened = 0
    /\ mlock_ok = FALSE
    /\ alive = TRUE
    /\ crashed = FALSE
    /\ last = [op |-> "init"]
    /\ shadow = [sections |-> <<>>, calls |-> 0]
    /\ timer = NoTimer
    /\ procs = <<>>
    /\ bloom = NoBloom
    /\ exim = NoClient

NextSection ==
    \/ Open(PathA, SmallSize, FALSE, 1, NoFault) /\ UNCHANGED shadow
    \/ \E i \in 1 .. opened : Close(i) /\ UNCHANGED shadow
    \/ \E i \in 1 .. opened, code \in SectionCodes, length \in 0 .. MaxSectionLength,
          F \in {NoFault, {"lseek"}, {"write_section"}, {"write_block"}} :
          /\ shadow.calls < MaxAppends
          /\ AddSection(i, code, length, F)
          /\ shadow' = [sections |->
                           IF last'.ret
                           THEN Append(shadow.sections,
                                       [code |-> code, length |-> length,
                                        off |-> disk[files[i].filename].len])
                           ELSE shadow.sections,
                        calls |-> shadow.calls + 1]
    \/ \E i \in 1 .. opened, code \in SectionCodes \cup {STATFILE_SECTION_COMMON},
          from_begin \in BOOLEAN, trap \in BOOLEAN :
          SetSection(i, code, from_begin, trap) /\ UNCHANGED shadow
    \/ \E i \in 1 .. opened, k \in SectionKeys :
          Put(i, k[1], k[2], 1, <<3, 1>>) /\ UNCHANGED shadow

SpecSection == InitSection /\ [][NextSection]_vars

\* C21: an add_section that returns TRUE has grown the file by one section
\* header and length blocks, and the handle's len is the new size of the file.
C21_AppendKeepsMapLen ==
    [][(last'.op = "add_section" /\ last'.ret) =>
          /\ disk'[last'.path].len =
                 disk[last'.path].len + SizeofSection + last'.length * SizeofBlock
          /\ files'[last'.i].len = disk'[last'.path].len]_vars

\* the first section appended with code c
FirstAppended(c) ==
    LET ks == {k \in 1 .. Len(shadow.sections) : shadow.sections[k].code = c}
    IN  shadow.sections[CHOOSE k \in ks : \A m \in ks : k <= m]

\* C22: set_section from the beginning, for a code that a section was appended
\* with, returns TRUE and leaves the cursor on that section: its code and
\* length, seek_pos the offset of its first block.
C22_LocateAppended ==
    [][(/\ last'.op = "set_section"
        /\ last'.from_begin
        /\ \E k \in 1 .. Len(shadow.sections) : shadow.sections[k].code = last'.code) =>
          /\ last'.ret
          /\ files'[last'.i].cur_section =
                 [code |-> last'.code, length |-> FirstAppended(last'.code).length]
          /\ files'[last'.i].seek_pos =
                 FirstAppended(last'.code).off + SizeofSection]_vars

-----------------------------------------------------------------------------
(* SpecMixed: the two processes of SpecShared, each putting one of two keys *)
(* that differ in hash1, hash2 and value and fall into the same block.      *)

MixedPuts ==
    {<<SharedBlocks, 1, <<3, 1>>>>, <<2 * SharedBlocks, 2, <<0, 60>>>>}

NextMixed ==
    \/ \E p \in Procs, t \in MixedPuts : SharedStart(p, t[1], t[2], t[3])
    \/ \E p \in Procs : SharedStep(p)

SpecMixed == InitShared /\ [][NextMixed]_vars

\* block n of the table is free or holds the hash1, hash2 and value of one put
WholeBlock(n) ==
    LET b == BlockNo(Table, Handle, n)
    IN  \/ IsFree(b) /\ b.value = DZero
        \/ <<b.hash1, b.hash2, b.value>> \in MixedPuts

\* C23: whenever no put is in progress, every block of the shared table is
\* free or holds the triple of one single put.
C23_NoMixedBlocks ==
    (\A p \in Procs : procs[p].pc = "idle") =>
        \A n \in 0 .. Handle.cur_section.length - 1 : WholeBlock(n)

-----------------------------------------------------------------------------
(* The probe window, under SpecTable                                        *)

Slot0(h, h1) == h1 % h.cur_section.length
WindowEnd(h, h1) == Min(Slot0(h, h1) + CHAIN_LENGTH, h.cur_section.length)

\* C24: get and put read blocks Slot0, Slot0 + 1, ... and stop before
\* WindowEnd, the end of the section or CHAIN_LENGTH blocks after Slot0; the
\* blocks a put changes and the block a get returns lie in that window, and
\* no call faults.
C24_WindowClamped ==
    [][/\ last'.op = "get" =>
             /\ Slot0(Handle, last'.h1) + GetInspected(World, 1, last'.h1, last'.h2)
                    <= WindowEnd(Handle, last'.h1)
             /\ last'.ret # DZero =>
                    \E n \in Window(Handle, last'.h1) :
                        /\ HoldsKey(BlockNo(Table, Handle, n), last'.h1, last'.h2)
                        /\ BlockNo(Table, Handle, n).value = last'.ret
             /\ Changed = {}
             /\ ~crashed'
       /\ last'.op = "put" =>
             /\ Slot0(Handle, last'.h1)
                    + PutInspected(World, 1, last'.h1, last'.h2, last'.value)
                    <= WindowEnd(Handle, last'.h1)
             /\ Changed \subseteq Window(Handle, last'.h1)
             /\ ~crashed']_vars

\* on the 3-block section three keys of slot 1 were put: the window is blocks
\* 1 and 2, shorter than CHAIN_LENGTH; both hold keys of slot 1, the key put
\* last among them, one key was expired, and block 0 is still free
C24_Witness ==
    /\ last.op = "put"
    /\ Handle.cur_section.length = 3
    /\ Slot0(Handle, last.h1) = 1
    /\ Cardinality(Window(Handle, last.h1)) = 2
    /\ Cardinality({k \in DOMAIN shadow.vals : Slot0(Handle, k[1]) = 1}) = 3
    /\ \E n \in Window(Handle, last.h1) :
          HoldsKey(BlockNo(Table, Handle, n), last.h1, last.h2)
    /\ \A n \in Window(Handle, last.h1) : ~IsFree(BlockNo(Table, Handle, n))
    /\ \E k \in DOMAIN shadow.vals : ~Found(Table, Handle, k[1], k[2])
    /\ IsFree(BlockNo(Table, Handle, 0))

-----------------------------------------------------------------------------
(* used_blocks and the keys of the table, under SpecTable                   *)

\* the blocks of the section of handle h on file f that are not free
NonFree(f, h) ==
    {n \in 0 .. h.cur_section.length - 1 : ~IsFree(BlockNo(f, h, n))}

\* C25: used_blocks is the number of blocks that are not free; a put into a
\* free block adds one, a put that updates its key or expires a block leaves
\* it unchanged; it never decreases and no block becomes free again.
C25_UsedBlocksCounts ==
    /\ [](Table.used_blocks = Cardinality(NonFree(Table, Handle)))
    /\ [][/\ last'.op = "put" =>
                Table'.used_blocks = Table.used_blocks +
                    (IF PutKind(Table, Handle, last'.h1, last'.h2) = "insert"
                     THEN 1 ELSE 0)
          /\ Table'.used_blocks >= Table.used_blocks
          /\ NonFree(Table, Handle) \subseteq NonFree(Table', Handle')]_vars

\* on the 3-block section two blocks were filled and a third key has expired
\* one of them: used_blocks is 2, the number of blocks that are not free
C25_Witness ==
    /\ last.op = "put"
    /\ Handle.cur_section.length = 3
    /\ shadow.evicted
    /\ Table.used_blocks = 2
    /\ Cardinality(NonFree(Table, Handle)) = 2
    /\ HoldsKey(BlockNo(Table, Handle, Slot0(Handle, last.h1)), last.h1, last.h2)

\* C26: no two blocks of the section hold the same key
C26_KeyUnique ==
    Cardinality({KeyOf(BlockNo(Table, Handle, n)) : n \in NonFree(Table, Handle)})
        = Cardinality(NonFree(Table, Handle))

\* all three blocks of the 3-block section are taken, a block was expired,
\* and the key put last is held by exactly one block, with the value put
C26_Witness ==
    /\ last.op = "put"
    /\ Handle.cur_section.length = 3
    /\ shadow.evicted
    /\ Cardinality(NonFree(Table, Handle)) = 3
    /\ Cardinality({n \in NonFree(Table, Handle) :
                       HoldsKey(BlockNo(Table, Handle, n), last.h1, last.h2)}) = 1
    /\ GetNow(1, last.h1, last.h2) = last.value

-----------------------------------------------------------------------------
(* SpecRead: a statfile that holds two keys is opened at time 1, as it is   *)
(* or through reindex, read and written at later times, and closed.         *)

ReadTimes == {2, 3}
ReadKeys == {<<1, 1>>, <<2, 1>>, <<1, 2>>}

InitRead ==
    /\ disk = PathA :> DataFile
    /\ files = <<>>
    /\ opened = 0
    /\ mlock_ok = FALSE
    /\ alive = TRUE
    /\ crashed = FALSE
    /\ last = [op |-> "init"]
    /\ shadow = NoShadow
    /\ timer = NoTimer
    /\ procs = <<>>
    /\ bloom = NoBloom
    /\ exim = NoClient

NextRead ==
    \/ \E size \in Sizes, forced \in BOOLEAN :
          Open(PathA, size, forced, 1, NoFault) /\ UNCHANGED shadow
    \/ \E i \in 1 .. opened : Close(i) /\ UNCHANGED shadow
    \/ \E i \in 1 .. opened, k \in ReadKeys, t \in ReadTimes :
          Get(i, k[1], k[2], t) /\ UNCHANGED shadow
    \/ \E i \in 1 .. opened, k \in ReadKeys, t \in ReadTimes :
          Put(i, k[1], k[2], t, <<0, 60>>) /\ UNCHANGED shadow

SpecRead == InitRead /\ [][NextRead]_vars

\* the value of the first block of the window of h1 that holds (h1, h2), 0.0
\* when there is none
FirstMatch(f, h, h1, h2) ==
    LET hits == {n \in Window(h, h1) : HoldsKey(BlockNo(f, h, n), h1, h2)}
    IN  IF hits = {} THEN DZero
        ELSE BlockNo(f, h, CHOOSE n \in hits : \A m \in hits : n <= m).value

\* C27: a get changes nothing but access_time of its handle, which becomes
\* now, and returns the value of the first block of the window that holds
\* both hashes, 0.0 when there is none; on a handle without a mapping it
\* returns 0.0; the puts of the copy loop of reindex leave access_time as
\* the open of the new file has set it.
C27_GetReadOnly ==
    [][/\ last'.op = "get" =>
             LET i == statfile_pool_is_open(World, last'.path)
                 unmapped == [World EXCEPT !.files[i].map = NULL]
             IN  /\ disk' = disk
                 /\ files' = [files EXCEPT ![i].access_time = last'.now]
                 /\ opened' = opened
                 /\ last'.ret = FirstMatch(disk[last'.path], files[i], last'.h1, last'.h2)
                 /\ statfile_pool_get_block(unmapped, i, last'.h1, last'.h2, last'.now)
                        = [w |-> [unmapped EXCEPT !.files[i].access_time = last'.now],
                           ret |-> DZero]
       /\ (ReindexDone(last') /\ CopyPuts(last') # <<>>) =>
             files'[last'.ret].access_time = files'[last'.ret].open_time]_vars

\* a get at time 3 on the handle opened at time 1 has returned the value of
\* a key of the file, and access_time is 3
C27_Witness ==
    /\ last.op = "get"
    /\ last.now = 3
    /\ last.ret # DZero
    /\ opened = 1
    /\ files[1].open_time = 1
    /\ files[1].access_time = 3

-----------------------------------------------------------------------------
(* SpecClose: three statfiles are opened (as they are or reindexed to the   *)
(* bigger size) and closed in any order, through the registered slot or     *)
(* through a pointer to a slot behind pool->opened; shadow.refused records  *)
(* that some close has returned -1.                                          *)

InitClose ==
    /\ disk = [p \in HandlePaths |-> GoodFile]
    /\ files = <<>>
    /\ opened = 0
    /\ mlock_ok = FALSE
    /\ alive = TRUE
    /\ crashed = FALSE
    /\ last = [op |-> "init"]
    /\ shadow = [refused |-> FALSE]
    /\ timer = NoTimer
    /\ procs = <<>>
    /\ bloom = NoBloom
    /\ exim = NoClient

NextClose ==
    \/ \E p \in HandlePaths, size \in PoolSizes :
          Open(p, size, FALSE, 1, NoFault) /\ UNCHANGED shadow
    \/ \E i \in 1 .. opened : Close(i) /\ UNCHANGED shadow
    \/ \E i \in opened + 1 .. Len(files) :
          /\ CloseStale(i)
          /\ shadow' = [refused |-> shadow.refused \/ last'.ret = -1]

SpecClose == InitClose /\ [][NextClose]_vars

\* C28: a close of a handle whose path is registered at slot pos returns 0,
\* calls msync and then munmap on it, takes 1 from opened, leaves the path
\* unregistered and every other registered handle unchanged, in the same
\* order, in slots 1 .. opened - 1; a close of a handle whose path is not
\* registered returns -1, makes no call and changes nothing.
C28_CloseRemovesOne ==
    [][last'.op = "close" =>
          LET p == last'.path
              pos == statfile_pool_is_open(World, p)
          IN  IF pos = NULL
              THEN /\ last'.ret = -1
                   /\ last'.sys = <<>>
                   /\ UNCHANGED <<disk, files, opened, mlock_ok, crashed>>
              ELSE /\ last'.ret = 0
                   /\ last'.sys = <<(<<"msync", p>>), (<<"munmap", p>>)>>
                   /\ opened' = opened - 1
                   /\ statfile_pool_is_open(WorldAfter, p) = NULL
                   /\ \A k \in 1 .. opened' :
                         files'[k] = files[IF k < pos THEN k ELSE k + 1]
                   /\ UNCHANGED <<disk, mlock_ok, crashed>>]_vars

\* a, b and c were open, in this order, b reindexed; a close has been
\* refused before, and the close of a has left b and c in slots 1 and 2
C28_Witness ==
    /\ shadow.refused
    /\ last.op = "close" /\ last.path = PathA /\ last.ret = 0
    /\ opened = 2
    /\ files[1].filename = PathB /\ files[1].len = BigSize
    /\ files[2].filename = PathC /\ files[2].len = SmallSize

-----------------------------------------------------------------------------
(* Threads: statfile_pool_open, statfile_pool_close, statfile_pool_create   *)
(* and rspamd_mmaped_file_reindex run by the threads of one process, one     *)
(* access to the pool or one locked region at a time.  lock is pool->lock:   *)
(* NULL when free, otherwise the thread that holds it.  l is the frame of a  *)
(* thread: pc is the statement it executes next.  A step returns the world,  *)
(* the lock, the frame, and done/ret when the call of the thread returns.    *)

IdleThread ==
    [pc |-> "idle", op |-> "none", filename |-> <<>>, size |-> 0, forced |-> FALSE,
     inner |-> FALSE, F |-> {}, st_size |-> 0, slot |-> 0, pos |-> 0, file |-> 0,
     old_size |-> 0, tmp |-> 0, fd |-> 0, src |-> NULL, new |-> NULL, locks |-> 0]

\* the statements rspamd_mempool_lock_mutex (pool->lock): lines 343, 428, 222, 480
LockPcs == {"open_lock", "close_lock", "reindex_lock", "create_lock"}

Go(w, lock, l) == [w |-> w, lock |-> lock, l |-> l, done |-> FALSE, ret |-> NULL]
Done(w, lock, l, v) ==
    [w |-> w, lock |-> lock, l |-> IdleThread, done |-> TRUE, ret |-> v]

\* return from statfile_pool_open: to reindex (line 244) or to the caller
OpenReturn(w, lock, l, v) ==
    IF l.inner
    THEN Go(w, lock, [l EXCEPT !.pc = "reindex_opened", !.new = v, !.inner = FALSE])
    ELSE Done(w, lock, l, v)

\* rspamd_mempool_lock_mutex by thread t (the step is taken when the mutex is free)
Acquire(w, t, l, pc) == Go(w, t, [l EXCEPT !.pc = pc, !.locks = @ + 1])

OpenStep(w, lock, t, l) ==
    LET filename == l.filename IN
    CASE l.pc = "open_is_open" ->                                   \* line 327
            LET r == statfile_pool_is_open(w, filename)
            IN  IF r # NULL THEN OpenReturn(w, lock, l, r)
                ELSE Go(w, lock, [l EXCEPT !.pc = "open_cap"])
      [] l.pc = "open_cap" ->                                       \* line 331
            IF w.opened >= STATFILES_MAX - 1 THEN OpenReturn(w, lock, l, NULL)
            ELSE Go(w, lock, [l EXCEPT !.pc = "open_stat"])
      [] l.pc = "open_stat" ->                                      \* line 337
            IF filename \notin DOMAIN w.disk THEN OpenReturn(w, lock, l, NULL)
            ELSE Go(w, lock, [l EXCEPT !.pc = "open_lock",
                                       !.st_size = w.disk[filename].len])
      [] l.pc = "open_lock" -> Acquire(w, t, l, "open_drift")       \* line 343
      [] l.pc = "open_drift" ->                                     \* lines 344-349
            IF ~l.forced /\ Drift(l.size, l.st_size)
            THEN Go(w, NULL, [l EXCEPT !.pc = "reindex_size", !.old_size = l.st_size])
            ELSE Go(w, lock, [l EXCEPT !.pc = "open_claim"])
      [] l.pc = "open_claim" ->                                     \* lines 357-358
            LET slot == w.opened + 1
            IN  IF slot < 1 \/ slot > Len(w.files) + 1
                THEN Go([w EXCEPT !.crashed = TRUE], lock, l)
                ELSE Go([w EXCEPT !.opened = slot,
                                  !.files = SetSlot(@, slot, ZeroHandle)],
                        lock, [l EXCEPT !.pc = "open_map", !.slot = slot])
      [] l.pc = "open_map" ->                                       \* lines 359-411
            LET gone == filename \notin DOMAIN w.disk
                h0 == [ZeroHandle EXCEPT !.fd = IF gone \/ "open" \in l.F THEN -1 ELSE FD]
                h1 == [h0 EXCEPT !.map = IF "mmap" \in l.F \/ l.st_size = 0
                                         THEN MAP_FAILED ELSE MAPPED]
                h2 == [h1 EXCEPT !.filename = filename, !.len = l.st_size]
                chk == rspamd_mmaped_file_check(h2, w.disk[filename], l.F)
                h3 == [chk.h EXCEPT !.open_time = 1, !.access_time = 1]
                rb == [l EXCEPT !.pc = "open_rb_load"]
            IN  IF h0.fd = -1                   \* unlock at 364, then pool->opened--
                THEN Go([w EXCEPT !.files[l.slot] = h0], NULL, rb)
                ELSE IF h1.map = MAP_FAILED     \* unlock at 373, then pool->opened--
                THEN Go([w EXCEPT !.files[l.slot] = h1], NULL, rb)
                ELSE IF chk.ret = -1            \* pool->opened-- at 397, unlock at 398
                THEN OpenReturn([w EXCEPT !.files[l.slot] = chk.h,
                                          !.opened = @ - 1,
                                          !.disk[filename] = chk.f,
                                          !.sys = Append(@, <<"munmap", filename>>)],
                                NULL, l, NULL)
                ELSE Go([w EXCEPT !.files[l.slot] = h3, !.disk[filename] = chk.f],
                        NULL, [l EXCEPT !.pc = "open_ret"])
      [] l.pc = "open_rb_load" ->                                   \* lines 365, 378: load
            Go(w, lock, [l EXCEPT !.pc = "open_rb_store", !.tmp = w.opened])
      [] l.pc = "open_rb_store" ->                                  \* lines 365, 378: store
            OpenReturn([w EXCEPT !.opened = l.tmp - 1], lock, l, NULL)
      [] l.pc = "open_ret" ->                                       \* line 413
            OpenReturn(w, lock, l, statfile_pool_is_open(w, filename))

\* memmove of a negative number of handles, taken as a size_t, runs off the array
CloseStep(w, lock, t, l) ==
    CASE l.pc = "close_is_open" ->                                  \* lines 423-426
            LET pos == statfile_pool_is_open(w, w.files[l.file].filename)
            IN  IF pos = NULL THEN Done(w, lock, l, -1)
                ELSE Go(w, lock, [l EXCEPT !.pc = "close_lock", !.pos = pos])
      [] l.pc = "close_lock" -> Acquire(w, t, l, "close_body")      \* line 428
      [] l.pc = "close_body" ->                                     \* lines 430-444
            LET file == w.files[l.file]
                w1 == IF file.map # NULL
                      THEN Sys(Sys(w, <<"msync", file.filename>>),
                               <<"munmap", file.filename>>)
                      ELSE w
            IN  IF w.opened - l.pos < 0
                THEN Go([w1 EXCEPT !.crashed = TRUE], lock, l)
                ELSE Done([w1 EXCEPT !.files = CloseMemmove(@, l.pos, w.opened),
                                     !.opened = @ - 1],
                          NULL, l, 0)

\* lines 480-556 of statfile_pool_create: the file is written with the mutex held
CreateStep(w, lock, t, l) ==
    CASE l.pc = "create_is_open" ->                                 \* lines 465-478
            IF statfile_pool_is_open(w, l.filename) # NULL
            THEN Go(w, lock, [l EXCEPT !.pc = "reindex_backup"])
            ELSE IF l.size < SizeofHeader + SizeofSection + SizeofBlock
            THEN Done(w, lock, l, NULL)
            ELSE Go(w, lock, [l EXCEPT !.pc = "create_lock"])
      [] l.pc = "create_lock" -> Acquire(w, t, l, "create_write")   \* line 480
      [] l.pc = "create_write" ->
            LET c == statfile_pool_create([w EXCEPT !.opened = 0], l.filename,
                                          l.size, 1, l.F)
                w1 == [w EXCEPT !.disk = c.w.disk]
            IN  IF c.ret # 0 THEN Done(w1, NULL, l, NULL)     \* unlock at 492 .. 553
                ELSE Go(w1, NULL, [l EXCEPT !.pc = "reindex_backup"])   \* unlock at 561

\* a variant that keeps the mutex over the call of statfile_pool_create
ReindexRenameHolding(w, lock, l) ==
    IF l.filename \notin DOMAIN w.disk \/ "rename" \in l.F
    THEN Done(w, NULL, l, NULL)
    ELSE Go(Rename(w, l.filename, BackupName(l.filename)), lock,
            [l EXCEPT !.pc = "create_is_open"])

\* lines 224-233 of rspamd_mmaped_file_reindex: rename and unlock
ReindexRename(w, lock, l) ==
    IF l.filename \notin DOMAIN w.disk \/ "rename" \in l.F
    THEN Done(w, NULL, l, NULL)                                     \* unlock at 229
    ELSE Go(Rename(w, l.filename, BackupName(l.filename)), NULL,    \* unlock at 233
            [l EXCEPT !.pc = "create_is_open"])

\* mmap (NULL, len, ..., fd, 0) of file f when len may exceed the size of the
\* file: the bytes behind the end of the file, up to the end of its last page,
\* read as 0 (the files of the model are smaller than a page)
MapView(f, len) ==
    [f EXCEPT !.data = [k \in 1 .. Max(Len(@), DataWords(len)) |->
                            IF k <= Len(@) THEN @[k] ELSE 0]]

ReindexStep(w, lock, t, l) ==
    LET backup == BackupName(l.filename) IN
    CASE l.pc = "reindex_size" ->                                   \* lines 212-219
            IF l.size < SizeofHeader + SizeofSection + SizeofBlockPtr
            THEN Done(w, lock, l, NULL)
            ELSE Go(w, lock, [l EXCEPT !.pc = "reindex_lock"])
      [] l.pc = "reindex_lock" -> Acquire(w, t, l, "reindex_rename")   \* line 222
      [] l.pc = "reindex_rename" -> ReindexRename(w, lock, l)
      [] l.pc = "reindex_backup" ->                                 \* lines 243-244
            Go(w, lock, [l EXCEPT !.pc = "open_is_open", !.forced = TRUE, !.inner = TRUE,
                                  !.fd = IF backup \in DOMAIN w.disk THEN FD ELSE -1,
                                  !.src = IF backup \in DOMAIN w.disk
                                          THEN w.disk[backup] ELSE NULL])
      [] l.pc = "reindex_opened" ->                                 \* lines 246-282
            IF l.fd = -1 \/ l.new = NULL THEN Done(w, lock, l, NULL)
            ELSE IF l.old_size = 0 THEN Done(w, lock, l, NULL)
            ELSE IF l.old_size < SizeofStatFile - SizeofBlock
            THEN Go([w EXCEPT !.crashed = TRUE], lock, l)
            ELSE LET w2 == ReindexCopy(w, MapView(l.src, l.old_size), l.old_size, l.new,
                                       SizeofStatFile - SizeofBlock)
                     w3 == statfile_set_revision(w2, l.new, l.src.revision,
                                                 l.src.rev_time)
                 IN  IF w2.crashed THEN Go(w2, lock, l)
                     ELSE Done(Unlink(Sys(w3, <<"munmap", backup>>), backup),
                               lock, l, l.new)

ThreadStep(w, lock, t, l) ==
    IF l.pc \in {"open_is_open", "open_cap", "open_stat", "open_lock", "open_drift",
                 "open_claim", "open_map", "open_rb_load", "open_rb_store", "open_ret"}
    THEN OpenStep(w, lock, t, l)
    ELSE IF l.pc \in {"close_is_open", "close_lock", "close_body"}
    THEN CloseStep(w, lock, t, l)
    ELSE IF l.pc \in {"create_is_open", "create_lock", "create_write"}
    THEN CreateStep(w, lock, t, l)
    ELSE ReindexStep(w, lock, t, l)

-----------------------------------------------------------------------------
(* SpecThreads: two threads of one process call statfile_pool_open (with   *)
(* the size the file has) and statfile_pool_close on the same pool;         *)
(* procs.thr[t] is the frame of thread t and procs.lock the pool mutex.     *)
(* shadow.net is the number of increments of pool->opened that were         *)
(* executed less the number of decrements; shadow.calls[t] the number of    *)
(* calls thread t has made.                                                  *)

Threads == {1, 2}
MaxThreadOps == 2
ThreadPaths == {PathA, PathB}
ThreadFaults == {NoFault, {"open"}}

InitThreads ==
    /\ disk = [p \in ThreadPaths |-> GoodFile]
    /\ files = <<>>
    /\ opened = 0
    /\ mlock_ok = FALSE
    /\ alive = TRUE
    /\ crashed = FALSE
    /\ last = [op |-> "init"]
    /\ shadow = [net |-> 0, calls |-> [t \in Threads |-> 0]]
    /\ timer = NoTimer
    /\ procs = [lock |-> NULL, thr |-> [t \in Threads |-> IdleThread]]
    /\ bloom = NoBloom
    /\ exim = NoClient

StartCall(t, l) ==
    /\ Running
    /\ procs.thr[t].pc = "idle"
    /\ procs' = [procs EXCEPT !.thr[t] = l]
    /\ shadow' = [shadow EXCEPT !.calls[t] = @ + 1]
    /\ last' = [op |-> "call", thread |-> t, call |-> l.op]
    /\ UNCHANGED <<disk, files, opened, mlock_ok, alive, crashed, timer, bloom, exim>>

\* thread t calls statfile_pool_open (pool, p, size, FALSE)
ThreadOpen(t, p, size, F) ==
    StartCall(t, [IdleThread EXCEPT !.pc = "open_is_open", !.op = "open",
                                    !.filename = p, !.size = size, !.F = F])

\* thread t calls statfile_pool_close (pool, &pool->files[i], FALSE) with a
\* handle that an open has filled
ThreadClose(t, i) ==
    /\ i \in 1 .. opened
    /\ files[i].filename # <<>>
    /\ StartCall(t, [IdleThread EXCEPT !.pc = "close_is_open", !.op = "close",
                                       !.file = i])

\* thread t executes its next statement; a thread at a lock statement waits
\* until the mutex is free
ThreadRun(t) ==
    /\ Running
    /\ procs.thr[t].pc # "idle"
    /\ procs.thr[t].pc \in LockPcs => procs.lock = NULL
    /\ LET l == procs.thr[t]
           r == ThreadStep(World, procs.lock, t, l)
       IN  /\ disk' = r.w.disk
           /\ files' = r.w.files
           /\ opened' = r.w.opened
           /\ mlock_ok' = r.w.mlock_ok
           /\ crashed' = r.w.crashed
           /\ procs' = [lock |-> r.lock, thr |-> [procs.thr EXCEPT ![t] = r.l]]
           /\ shadow' = [shadow EXCEPT !.net = @ + (IF l.pc = "open_rb_store" THEN -1
                                                    ELSE r.w.opened - opened)]
           /\ last' = [op |-> "step", thread |-> t, pc |-> l.pc, call |-> l.op,
                       done |-> r.done, ret |-> r.ret, locks |-> r.l.locks + l.locks,
                       sys |-> r.w.sys]
           /\ UNCHANGED <<alive, timer, bloom, exim>>

NextThreads ==
    \/ \E t \in Threads, p \in ThreadPaths, F \in ThreadFaults :
          shadow.calls[t] < MaxThreadOps /\ ThreadOpen(t, p, SmallSize, F)
    \/ \E t \in Threads, i \in 1 .. opened :
          shadow.calls[t] < MaxThreadOps /\ ThreadClose(t, i)
    \/ \E t \in Threads : ThreadRun(t)

SpecThreads == InitThreads /\ [][NextThreads]_vars

Quiescent == \A t \in Threads : procs.thr[t].pc = "idle"

\* the statements that read or write pool->opened or the registered part of
\* pool->files in order to change them: the already-open checks, the capacity
\* check, the claim of a slot, the rollback and the compaction
StructuralPcs ==
    {"open_is_open", "open_cap", "open_claim", "open_rb_load", "open_rb_store",
     "close_is_open", "close_body", "create_is_open"}

\* no two of the slots 1 .. opened carry the same file name (a slot that was
\* claimed and not yet filled has the empty name)
NoPathTwice ==
    \A i, j \in 1 .. opened :
        (files[i].filename = files[j].filename /\ files[i].filename # <<>>) => i = j

\* pool->opened is what the increments and decrements executed so far make it
CountExact == Quiescent => opened = shadow.net

\* C29: a thread that is at a structural statement of open, close, create or
\* reindex holds the pool mutex; no path is registered twice; the process
\* does not fault; and when no call is in progress pool->opened is the number
\* of increments less the number of decrements the calls have made.
C29_StructureUnderMutex ==
    /\ \A t \in Threads : procs.thr[t].pc \in StructuralPcs => procs.lock = t
    /\ NoPathTwice
    /\ ~crashed
    /\ CountExact

-----------------------------------------------------------------------------
(* SpecSolo: one thread calls statfile_pool_open and statfile_pool_close,   *)
(* statement by statement, on statfiles that are valid, damaged or missing, *)
(* with the size on disk or with a size that makes open reindex, and with   *)
(* system calls that fail.                                                   *)

MaxSoloOps == 3
SoloFaults == {NoFault, {"open"}, {"mmap"}, {"rename"}, {"creat"}, {"write_block"}}

InitSolo ==
    /\ disk \in {[p \in ThreadPaths |-> GoodFile], PathA :> BadMagicFile}
    /\ files = <<>>
    /\ opened = 0
    /\ mlock_ok = FALSE
    /\ alive = TRUE
    /\ crashed = FALSE
    /\ last = [op |-> "init"]
    /\ shadow = [net |-> 0, calls |-> [t \in Threads |-> 0]]
    /\ timer = NoTimer
    /\ procs = [lock |-> NULL, thr |-> [t \in Threads |-> IdleThread]]
    /\ bloom = NoBloom
    /\ exim = NoClient

NextSolo ==
    \/ \E p \in ThreadPaths, size \in PoolSizes, F \in SoloFaults :
          shadow.calls[1] < MaxSoloOps /\ ThreadOpen(1, p, size, F)
    \/ \E i \in 1 .. opened :
          shadow.calls[1] < MaxSoloOps /\ ThreadClose(1, i)
    \/ ThreadRun(1)

SpecSolo == InitSolo /\ [][NextSolo]_vars

\* C30: a thread that is in no call of open, close, create or reindex does
\* not hold the pool mutex, and a thread that is about to lock the pool mutex
\* does not hold it (so the lock statement of a single thread never waits).
C30_MutexReleased ==
    \A t \in Threads :
        (procs.thr[t].pc = "idle" \/ procs.thr[t].pc \in LockPcs) => procs.lock # t

\* an open has reindexed and returned the new handle: it has locked the mutex
\* in open, in reindex, in create and in the forced open, and the mutex is free
C30_Witness ==
    /\ last.op = "step" /\ last.call = "open" /\ last.done
    /\ last.pc = "reindex_opened" /\ last.ret # NULL
    /\ last.locks = 4
    /\ procs.lock = NULL

-----------------------------------------------------------------------------
(* SpecRemap: a statfile is opened, sections are appended with the system   *)
(* calls of statfile_pool_add_section succeeding or failing (mmap returns   *)
(* a mapping or MAP_FAILED), and the handle is read.  shadow.calls counts    *)
(* the calls of add_section.                                                 *)

RemapFaults == {NoFault, {"lseek"}, {"write_section"}, {"write_block"}, {"mmap"}}

InitRemap ==
    /\ disk = PathA :> GoodFile
    /\ files = <<>>
    /\ opened = 0
    /\ mlock_ok = FALSE
    /\ alive = TRUE
    /\ crashed = FALSE
    /\ last = [op |-> "init"]
    /\ shadow = [calls |-> 0]
    /\ timer = NoTimer
    /\ procs = <<>>
    /\ bloom = NoBloom
    /\ exim = NoClient

NextRemap ==
    \/ Open(PathA, SmallSize, FALSE, 1, NoFault) /\ UNCHANGED shadow
    \/ \E i \in 1 .. opened : Close(i) /\ UNCHANGED shadow
    \/ \E i \in 1 .. opened, code \in SectionCodes, length \in 0 .. MaxSectionLength,
          F \in RemapFaults :
          /\ shadow.calls < MaxAppends
          /\ AddSection(i, code, length, F)
          /\ shadow' = [calls |-> shadow.calls + 1]
    \/ \E i \in 1 .. opened, k \in SectionKeys :
          Get(i, k[1], k[2], 2) /\ UNCHANGED shadow
    \/ \E i \in 1 .. opened, k \in SectionKeys :
          Put(i, k[1], k[2], 2, <<3, 1>>) /\ UNCHANGED shadow

SpecRemap == InitRemap /\ [][NextRemap]_vars

\* the positions of the calls named c in the system-call log s
CallsNamed(s, c) == {k \in 1 .. Len(s) : s[k][1] = c}

\* C31: in every add_section, munmap and mmap are called between a lock and
\* the unlock of the file's mutex, every lock is followed by an unlock before
\* the return, and the handle is not left with a map that is no mapping.
C31_RemapUnderFileLock ==
    [][last'.op = "add_section" =>
          LET s == last'.sys
              locks == CallsNamed(s, "lock_file")
              unlocks == CallsNamed(s, "unlock_file")
          IN  /\ Cardinality(locks) = Cardinality(unlocks)
              /\ \A k \in CallsNamed(s, "munmap") \cup CallsNamed(s, "mmap") :
                    /\ \E a \in locks : a < k
                    /\ \E b \in unlocks : k < b
              /\ files'[last'.i].map # MAP_FAILED]_vars

-----------------------------------------------------------------------------
(* The advisory lock of open (checked in SpecValid)                          *)

\* the positions of the calls named c in the log s of advisory-lock calls
FlockCalls(s, c) == {k \in 1 .. Len(s) : s[k][1] = c}

\* C32: in every open, each validation is preceded by the lock and followed
\* by the unlock of the advisory lock of the same file, whether the file is
\* accepted or rejected, and no lock or unlock is called elsewhere: at the
\* return every lock has been released.
C32_AdvisoryLockBrackets ==
    [][last'.op = "open" =>
          LET s == last'.flock
              checks == FlockCalls(s, "check")
          IN  /\ \A k \in checks :
                    /\ k > 1 /\ s[k - 1] = <<"lock", s[k][2]>>
                    /\ k < Len(s) /\ s[k + 1] = <<"unlock", s[k][2]>>
              /\ FlockCalls(s, "lock") = {k - 1 : k \in checks}
              /\ FlockCalls(s, "unlock") = {k + 1 : k \in checks}
              /\ (last'.ret # NULL /\ ~last'.was_open) => checks # {}]_vars

\* the file with the foreign magic was opened: it was validated and rejected
\* with the advisory lock taken and released
C32_Witness ==
    /\ last.op = "open"
    /\ last.ret = NULL
    /\ disk[PathA] = BadMagicFile
    /\ last.flock = <<(<<"lock", PathA>>), (<<"check", PathA>>), (<<"unlock", PathA>>)>>

-----------------------------------------------------------------------------
(* Termination of statfile_pool_set_section (checked in SpecSection)         *)

\* C33: every set_section returns (its loop ends and the process does not
\* fault on a load), and one that returns FALSE leaves the handle as it was.
C33_LocateTerminates ==
    [][last'.op = "set_section" =>
          /\ ~last'.hang
          /\ ~crashed'
          /\ ~last'.ret => files' = files]_vars

-----------------------------------------------------------------------------
(* get_statfile_by_symbol                                                    *)

\* ccf->statfiles is a sequence of [symbol, path, size].  F: the system calls
\* that fail in the first open, G: those that fail in create and in the open
\* after it.  Returns [w, ret].
get_statfile_by_symbol(w, ccf, symbol, try_create, t, F, G) ==
    LET hits == {k \in 1 .. Len(ccf) : ccf[k].symbol = symbol}
        st == ccf[CHOOSE k \in hits : \A m \in hits : k <= m]
        o1 == statfile_pool_open(w, st.path, st.size, FALSE, t, F)
        c == statfile_pool_create(o1.w, st.path, st.size, t, G)
        o2 == statfile_pool_open(c.w, st.path, st.size, FALSE, t, G)
    IN  IF hits = {} THEN [w |-> w, ret |-> NULL]
        ELSE IF statfile_pool_is_open(w, st.path) # NULL
        THEN [w |-> w, ret |-> statfile_pool_is_open(w, st.path)]
        ELSE IF o1.ret # NULL THEN o1
        ELSE IF ~try_create THEN [w |-> o1.w, ret |-> NULL]
        ELSE IF c.ret = -1 THEN [w |-> c.w, ret |-> NULL]
        ELSE o2

\* the entry configured for symbol, one without a path when there is none
SymbolEntry(ccf, symbol) ==
    LET hits == {k \in 1 .. Len(ccf) : ccf[k].symbol = symbol}
    IN  IF hits = {} THEN [symbol |-> symbol, path |-> <<>>, size |-> 0] ELSE ccf[CHOOSE k \in hits : \A m \in hits : k <= m]

GetBySymbol(ccf, symbol, try_create, F, G) ==
    /\ Running
    /\ LET r == get_statfile_by_symbol(World, ccf, symbol, try_create, 1, F, G)
       IN  Commit(r.w, [op |-> "get_by_symbol", symbol |-> symbol,
                        st |-> SymbolEntry(ccf, symbol),
                        try_create |-> try_create, ret |-> r.ret])

-----------------------------------------------------------------------------
(* SpecSymbol: the statfile of symbol "spam" exists and holds data, the one *)
(* of "ham" does not exist; statfiles are requested by symbol, with and     *)
(* without try_create, configured with the size on disk or a bigger one,    *)
(* while a system call of the first open may fail; they are written and     *)
(* closed.  shadow.calls counts the requests.                                *)

MaxSymbolCalls == 3
SymbolNames == {"spam", "ham", "none"}
SymbolConfigs ==
    {<<[symbol |-> "spam", path |-> PathA, size |-> s],
       [symbol |-> "ham", path |-> PathB, size |-> s]>> : s \in Sizes}
SymbolFaults == {NoFault, {"stat"}, {"mmap"}, {"rename"}}

InitSymbol ==
    /\ disk = PathA :> DataFile
    /\ files = <<>>
    /\ opened = 0
    /\ mlock_ok = FALSE
    /\ alive = TRUE
    /\ crashed = FALSE
    /\ last = [op |-> "init"]
    /\ shadow = [calls |-> 0]
    /\ timer = NoTimer
    /\ procs = <<>>
    /\ bloom = NoBloom
    /\ exim = NoClient

NextSymbol ==
    \/ \E ccf \in SymbolConfigs, symbol \in SymbolNames, try_create \in BOOLEAN,
          F \in SymbolFaults, G \in {NoFault, {"creat"}} :
          /\ shadow.calls < MaxSymbolCalls
          /\ GetBySymbol(ccf, symbol, try_create, F, G)
          /\ shadow' = [calls |-> shadow.calls + 1]
    \/ \E i \in 1 .. opened : Close(i) /\ UNCHANGED shadow
    \/ \E i \in 1 .. opened : Put(i, 1, 2, 1, <<3, 1>>) /\ UNCHANGED shadow

SpecSymbol == InitSymbol /\ [][NextSymbol]_vars

\* C34: a request for a symbol that is not configured returns NULL and
\* changes neither pool nor disk; a request without try_create leaves a path
\* that has no file without one; and after every request a file that existed
\* with valid contents still holds every key and value it held.
C34_SymbolNeverDestroys ==
    [][last'.op = "get_by_symbol" =>
          LET st == last'.st IN
          IF st.path = <<>>
          THEN /\ last'.ret = NULL
               /\ UNCHANGED <<disk, files, opened>>
          ELSE /\ (~last'.try_create /\ st.path \notin DOMAIN disk) =>
                     st.path \notin DOMAIN disk'
               /\ (st.path \in DOMAIN disk /\ ~Rejected(disk[st.path])) =>
                     /\ st.path \in DOMAIN disk'
                     /\ SeqRange(LiveTriples(disk[st.path])) \subseteq
                            SeqRange(LiveTriples(disk'[st.path]))]_vars

-----------------------------------------------------------------------------
\* The counting Bloom filter of bloom.c.  bloom->a is an array of bytes, two
\* 4-bit counters to a byte; counter n lives in byte n * SIZE_BIT / CHAR_BIT,
\* in the low nibble when n is even and in the high nibble when n is odd.

CHAR_BIT == 8
SIZE_BIT == 4
ByteMod == 256          \* a char holds CHAR_BIT bits

RECURSIVE Pow2(_)
Pow2(k) == IF k = 0 THEN 1 ELSE 2 * Pow2(k - 1)

\* x & y and x | y on non-negative integers
RECURSIVE BitAnd(_, _)
BitAnd(x, y) ==
    IF x = 0 \/ y = 0 THEN 0
    ELSE (x % 2) * (y % 2) + 2 * BitAnd(x \div 2, y \div 2)

RECURSIVE BitOr(_, _)
BitOr(x, y) ==
    IF x = 0 THEN y
    ELSE IF y = 0 THEN x
    ELSE Max(x % 2, y % 2) + 2 * BitOr(x \div 2, y \div 2)

\* the byte of counter n (as an index of the sequence a) and its shift
CounterByte(n) == (n * SIZE_BIT) \div CHAR_BIT + 1
CounterShift(n) == (n % (CHAR_BIT \div SIZE_BIT)) * SIZE_BIT

\* the tail that INCBIT and DECBIT share: clear the counter, store acc
StoreBit(a, n, acc) ==
    LET kept == BitAnd(a[CounterByte(n)], 15 * Pow2(4 - CounterShift(n)))
    IN  [a EXCEPT ![CounterByte(n)] = BitOr(kept, acc * Pow2(CounterShift(n))) % ByteMod]

\* acc is a u_char: it receives the masked byte, not the counter's value
INCBIT(a, n) ==
    LET acc0 == BitAnd(a[CounterByte(n)], 15 * Pow2(CounterShift(n)))
        acc1 == (acc0 + 1) % ByteMod
    IN  StoreBit(a, n, BitAnd(acc1, 15))

DECBIT(a, n) ==
    LET acc0 == BitAnd(a[CounterByte(n)], 15 * Pow2(CounterShift(n)))
        acc1 == (acc0 + ByteMod - 1) % ByteMod
    IN  StoreBit(a, n, BitAnd(acc1, 15))

GETBIT(a, n) == BitAnd(a[CounterByte(n)], 15 * Pow2(CounterShift(n)))

\* the value of counter n
Counter(a, n) == (a[CounterByte(n)] \div Pow2(CounterShift(n))) % 16

\* bloom_create: a zeroed array and the hash functions; a hash function is
\* the table of its values on the keys
bloom_create(size, nfuncs, hashes) ==
    [a |-> [i \in 1 .. ((size + CHAR_BIT - 1) \div CHAR_BIT) * SIZE_BIT |-> 0],
     funcs |-> hashes, nfuncs |-> nfuncs, asize |-> size]

\* the counter that hash function n selects for s
Slot(b, n, s) == b.funcs[n][s] % b.asize

RECURSIVE BloomAddLoop(_, _, _)
BloomAddLoop(b, s, n) ==
    IF n > b.nfuncs THEN b
    ELSE BloomAddLoop([b EXCEPT !.a = INCBIT(b.a, Slot(b, n, s))], s, n + 1)

bloom_add(b, s) == BloomAddLoop(b, s, 1)

RECURSIVE BloomDelLoop(_, _, _)
BloomDelLoop(b, s, n) ==
    IF n > b.nfuncs THEN b
    ELSE BloomDelLoop([b EXCEPT !.a = DECBIT(b.a, Slot(b, n, s))], s, n + 1)

bloom_del(b, s) == BloomDelLoop(b, s, 1)

bloom_check(b, s) == \A n \in 1 .. b.nfuncs : GETBIT(b.a, Slot(b, n, s)) # 0

BloomSize == 2          \* counters of the filter under test
MaxFuncs == 2           \* hash functions registered at most
MaxHash == 2            \* a hash value is in 0 .. MaxHash
BloomKeys == {"x", "y"}

NoCall == [op |-> "none", s |-> "", before |-> <<>>]

\* what a Bloom call leaves in last: the call, for an add the array before it,
\* and for a del that follows an add of the same string that add
BloomLast(op, s, ret) ==
    [op |-> op, s |-> s, ret |-> ret,
     before |-> IF op = "bloom_add" THEN bloom.a ELSE <<>>,
     prev |-> IF op = "bloom_del" /\ last.op = "bloom_add" /\ last.s = s
              THEN [op |-> last.op, s |-> last.s, before |-> last.before]
              ELSE NoCall]

BloomAdd(s) ==
    /\ bloom' = bloom_add(bloom, s)
    /\ last' = BloomLast("bloom_add", s, TRUE)
    /\ shadow' = [shadow EXCEPT !.added = @ \cup {s}]
    /\ UNCHANGED <<disk, files, opened, mlock_ok, alive, crashed, timer, procs, exim>>

BloomDel(s) ==
    /\ bloom' = bloom_del(bloom, s)
    /\ last' = BloomLast("bloom_del", s, TRUE)
    /\ shadow' = [shadow EXCEPT !.dels = TRUE]
    /\ UNCHANGED <<disk, files, opened, mlock_ok, alive, crashed, timer, procs, exim>>

BloomCheck(s) ==
    /\ last' = BloomLast("bloom_check", s, bloom_check(bloom, s))
    /\ UNCHANGED <<disk, files, opened, mlock_ok, alive, crashed, shadow, timer, procs,
                   bloom, exim>>

InitBloom ==
    /\ disk = <<>>
    /\ files = <<>>
    /\ opened = 0
    /\ mlock_ok = FALSE
    /\ alive = TRUE
    /\ crashed = FALSE
    /\ last = [op |-> "bloom_create", s |-> "", ret |-> TRUE, before |-> <<>>,
               prev |-> NoCall]
    /\ shadow = [added |-> {}, dels |-> FALSE]
    /\ timer = NoTimer
    /\ procs = <<>>
    /\ \E nfuncs \in 1 .. MaxFuncs :
       \E hashes \in [1 .. nfuncs -> [BloomKeys -> 0 .. MaxHash]] :
          bloom = bloom_create(BloomSize, nfuncs, hashes)
    /\ exim = NoClient

NextBloom ==
    \/ \E s \in BloomKeys : BloomAdd(s)
    \/ \E s \in BloomKeys : BloomDel(s)
    \/ \E s \in BloomKeys : BloomCheck(s)

SpecBloom == InitBloom /\ [][NextBloom]_vars

\* the counters that the calls on s select
Slots(b, s) == {Slot(b, n, s) : n \in 1 .. b.nfuncs}

\* C35: as long as nothing was deleted, every string that was added is found,
\* however often it or a colliding string was added; and an add leaves every
\* counter that its hash functions did not select as it was.
C35_NoFalseNegatives ==
    /\ ~shadow.dels => \A s \in shadow.added : bloom_check(bloom, s)
    /\ last.op = "bloom_add" =>
          \A n \in 0 .. bloom.asize - 1 :
             n \notin Slots(bloom, last.s) => Counter(bloom.a, n) = Counter(last.before, n)

\* the second half of C35 alone: an add never changes a counter it did not select
BloomAddKeepsNeighbours ==
    last.op = "bloom_add" =>
       \A n \in 0 .. bloom.asize - 1 :
          n \notin Slots(bloom, last.s) => Counter(bloom.a, n) = Counter(last.before, n)

\* C36: a del of s right after an add of s, where the add found the counters of
\* s below 15, puts the array back as it was before the add; on an empty
\* filter the string is then not found.
C36_DelUndoesAdd ==
    (/\ last.op = "bloom_del"
     /\ last.prev.op = "bloom_add"
     /\ last.prev.s = last.s
     /\ \A n \in Slots(bloom, last.s) : Counter(last.prev.before, n) < 15)
    => /\ bloom.a = last.prev.before
       /\ (\A i \in DOMAIN bloom.a : last.prev.before[i] = 0) => ~bloom_check(bloom, last.s)

-----------------------------------------------------------------------------
\* The body-sending loop of the exim client (contrib/exim/dlfunc-json/rspamd.c,
\* lines 406-453), one step per library call.  exim.pc is the position in the
\* loop: "fread" (line 412), "again" (the poll of line 420), "send" (line 437),
\* "while" (the loop condition of line 446), and after the loop "response"
\* (line 455), "RETURN_DEFER" or "WRITE_FAILED".

RSPAMD_TIMEOUT == 120
BufSize == 2            \* sizeof(spamd_buffer), scaled
MaxSpool == 4           \* bytes of the spool file at most

\* s[from + 1 .. from + n]
Bytes(s, from, n) == [i \in 1 .. n |-> s[from + i]]

IsPrefix(s, t) == Len(s) <= Len(t) /\ \A i \in 1 .. Len(s) : s[i] = t[i]

\* the client at the do of line 411 with a spool file of n distinct bytes
ClientStart(n) ==
    [pc |-> "fread", mbox_file |-> [i \in 1 .. n |-> i], pos |-> 0, feof |-> FALSE,
     ferror |-> FALSE, spamd_buffer |-> <<>>, read |-> 0, offset |-> 0, sent |-> <<>>,
     elapsed |-> 0, errno |-> ""]

ClientStep(c) ==
    /\ exim' = c
    /\ UNCHANGED <<disk, files, opened, mlock_ok, alive, crashed, last, timer, procs, bloom>>

\* line 412: fread fills the buffer unless the file ends or the read fails
EximFread(fails, got) ==
    LET left == Len(exim.mbox_file) - exim.pos
        n == IF fails THEN got ELSE Min(BufSize, left)
        c == [exim EXCEPT !.spamd_buffer = Bytes(exim.mbox_file, exim.pos, n),
                          !.read = n, !.pos = @ + n,
                          !.feof = ~fails /\ left < BufSize,
                          !.ferror = fails]
    IN  /\ exim.pc = "fread"
        /\ got <= Min(BufSize, left)
        /\ ~fails => got = 0
        /\ ClientStep(IF n > 0 THEN [c EXCEPT !.offset = 0, !.pc = "again"]
                      ELSE [c EXCEPT !.pc = "while"])
        /\ UNCHANGED shadow

\* lines 420-435: poll with a timeout of one second
EximPoll(result, errno) ==
    /\ exim.pc = "again"
    /\ ClientStep(
          IF result = -1 /\ errno = "EINTR"
          THEN [exim EXCEPT !.pc = "while", !.errno = errno]
          ELSE IF result = -1 THEN [exim EXCEPT !.pc = "RETURN_DEFER", !.errno = errno]
          ELSE IF result = 0
          THEN IF exim.elapsed + 1 < RSPAMD_TIMEOUT
               THEN [exim EXCEPT !.elapsed = @ + 1]
               ELSE [exim EXCEPT !.elapsed = @ + 1, !.pc = "RETURN_DEFER"]
          ELSE [exim EXCEPT !.pc = "send"])
    /\ shadow' = [interrupted |-> shadow.interrupted \/ (result = -1 /\ errno = "EINTR")]

\* lines 437-444: send what is left of the chunk
EximSend(wrote) ==
    /\ exim.pc = "send"
    /\ wrote = -1 \/ (1 <= wrote /\ wrote <= exim.read - exim.offset)
    /\ ClientStep(
          IF wrote = -1 THEN [exim EXCEPT !.pc = "WRITE_FAILED"]
          ELSE LET c == [exim EXCEPT !.sent = @ \o Bytes(exim.spamd_buffer, exim.offset, wrote)]
               IN  IF exim.offset + wrote # exim.read
                   THEN [c EXCEPT !.offset = @ + wrote, !.pc = "again"]
                   ELSE [c EXCEPT !.pc = "while"])
    /\ UNCHANGED shadow

\* lines 446-453: the loop condition and the test after the loop
EximWhile ==
    /\ exim.pc = "while"
    /\ ClientStep(
          IF ~exim.feof /\ ~exim.ferror THEN [exim EXCEPT !.pc = "fread"]
          ELSE IF exim.ferror THEN [exim EXCEPT !.pc = "RETURN_DEFER"]
          ELSE [exim EXCEPT !.pc = "response"])
    /\ UNCHANGED shadow

InitExim ==
    /\ disk = <<>>
    /\ files = <<>>
    /\ opened = 0
    /\ mlock_ok = FALSE
    /\ alive = TRUE
    /\ crashed = FALSE
    /\ last = [op |-> "rspamd"]
    /\ shadow = [interrupted |-> FALSE]
    /\ timer = NoTimer
    /\ procs = <<>>
    /\ bloom = NoBloom
    /\ \E n \in 0 .. MaxSpool : exim = ClientStart(n)

NextExim ==
    \/ \E fails \in BOOLEAN : \E got \in 0 .. BufSize : EximFread(fails, got)
    \/ \E result \in {-1, 0, 1} : \E errno \in {"EINTR", "EIO"} : EximPoll(result, errno)
    \/ \E wrote \in {-1} \cup 1 .. BufSize : EximSend(wrote)
    \/ EximWhile

SpecExim == InitExim /\ [][NextExim]_vars

\* C37: what went to the socket is at every moment the spool file up to some
\* byte, each byte once and in file order; when the loop is left for the
\* response it is the whole file; and the loop is left only at end of file,
\* on a read or socket error, or when 120 seconds have elapsed.
C37_WholeMessageSent ==
    /\ IsPrefix(exim.sent, exim.mbox_file)
    /\ exim.pc = "response" => exim.sent = exim.mbox_file
    /\ exim.pc = "response" => exim.feof
    /\ exim.pc = "RETURN_DEFER" =>
          exim.ferror \/ exim.elapsed >= RSPAMD_TIMEOUT \/ exim.errno = "EIO"

\* what remains of C37 when no poll is interrupted
SentUnlessInterrupted ==
    ~shadow.interrupted =>
       /\ IsPrefix(exim.sent, exim.mbox_file)
       /\ exim.pc = "response" => exim.sent = exim.mbox_file

\* the last part of C37 alone: why the loop is left
LoopExits ==
    /\ exim.pc = "response" => exim.feof
    /\ exim.pc = "RETURN_DEFER" =>
          exim.ferror \/ exim.elapsed >= RSPAMD_TIMEOUT \/ exim.errno = "EIO"

=============================================================================
